---- MODULE Spec2Model ----
(***************************************************************************)
(* A model of web-limo: the rule-driven Validator (src/src/validator.ts   *)
(* and the variant src/src/Validator.ts) and the Application request      *)
(* pipeline (src/unnamed/part_002 and the variant src/src/Application.ts). *)
(***************************************************************************)
EXTENDS Integers, Sequences, FiniteSets, TLC

(***************************************************************************)
(* JavaScript values.  Numbers are fixed-point: the field n counts        *)
(* hundredths, so the number 1 is Num(100) and 1.5 is Num(150).           *)
(* Strings are sequences of characters; objects are sequences of          *)
(* key/value entries in insertion order.                                  *)
(***************************************************************************)
Scale == 10 * 10

Undefined == [t |-> "undefined"]
Null == [t |-> "null"]
Bool(b) == [t |-> "boolean", b |-> b]
Num(n) == [t |-> "number", n |-> n]
NaN == [t |-> "NaN"]
Str(s) == [t |-> "string", s |-> s]
Arr(a) == [t |-> "array", a |-> a]
Obj(o) == [t |-> "object", o |-> o]
Int2Num(i) == Num(i * Scale)

\* typeof x
TypeOf(x) ==
  CASE x.t = "undefined" -> "undefined"
    [] x.t = "boolean" -> "boolean"
    [] x.t \in {"number", "NaN"} -> "number"
    [] x.t = "string" -> "string"
    [] OTHER -> "object"

\* !!x
Truthy(x) ==
  CASE x.t \in {"undefined", "null", "NaN"} -> FALSE
    [] x.t = "boolean" -> x.b
    [] x.t = "number" -> x.n # 0
    [] x.t = "string" -> x.s # <<>>
    [] OTHER -> TRUE

\* a === b for primitives; two distinct objects (the input and a value held
\* by a rule) are never the same reference.
StrictEq(a, b) ==
  /\ a.t \in {"undefined", "null", "boolean", "number", "string"}
  /\ a = b

\* Array.prototype.includes (SameValueZero: NaN is found)
Includes(list, x) ==
  \E i \in DOMAIN list : StrictEq(list[i], x) \/ (x.t = "NaN" /\ list[i].t = "NaN")

Digits == <<"0", "1", "2", "3", "4", "5", "6", "7", "8", "9">>
IsDigit(c) == \E i \in DOMAIN Digits : Digits[i] = c
DigitVal(c) == (CHOOSE i \in DOMAIN Digits : Digits[i] = c) - 1

RECURSIVE NatToStr(_)
NatToStr(n) == IF n < 10 THEN <<Digits[n + 1]>> ELSE NatToStr(n \div 10) \o <<Digits[(n % 10) + 1]>>

\* Number.prototype.toString for the non-negative fixed-point numbers
NumToStr(n) ==
  LET whole == n \div Scale
      frac == n % Scale
      fs == IF frac = 0 THEN <<>>
            ELSE IF frac % 10 = 0 THEN <<".", Digits[(frac \div 10) + 1]>>
            ELSE <<".", Digits[(frac \div 10) + 1], Digits[(frac % 10) + 1]>>
  IN NatToStr(whole) \o fs

\* Object.keys of an object or an array
IndexKey(i) == ToString(i)
Keys(x) ==
  IF x.t = "array" THEN [i \in DOMAIN x.a |-> IndexKey(i - 1)]
  ELSE [i \in DOMAIN x.o |-> x.o[i].k]

\* x[key]
Get(x, key) ==
  CASE x.t = "object" ->
         IF \E i \in DOMAIN x.o : x.o[i].k = key
         THEN x.o[CHOOSE i \in DOMAIN x.o : x.o[i].k = key].v
         ELSE Undefined
    [] x.t = "array" ->
         IF \E i \in DOMAIN x.a : IndexKey(i - 1) = key
         THEN x.a[CHOOSE i \in DOMAIN x.a : IndexKey(i - 1) = key]
         ELSE Undefined
    [] OTHER -> Undefined

Range(f) == {f[i] : i \in DOMAIN f}

\* isEqual comparing by identity only: it never descends into objects
isEqual_identityOnly(a, b) == StrictEq(a, b)

RECURSIVE isEqual(_, _)
isEqual(a, b) ==
  IF StrictEq(a, b) THEN TRUE
  ELSE IF TypeOf(a) = "object" /\ TypeOf(b) = "object" /\ a.t # "null" /\ b.t # "null"
          /\ Len(Keys(a)) = Len(Keys(b))
          /\ Cardinality({i \in DOMAIN Keys(a) : Keys(a)[i] \in Range(Keys(b))}) = Len(Keys(a))
       THEN \A i \in DOMAIN Keys(a) : isEqual(Get(a, Keys(a)[i]), Get(b, Keys(a)[i]))
  ELSE a.t = "NaN" /\ b.t = "NaN"

(***************************************************************************)
(* Strings: String.prototype.trim and the two ESCAPE_REPLACE_ARGS          *)
(* patterns.  A character is a one-element string; characters that have   *)
(* no printable form are written by their code point.                     *)
(***************************************************************************)
\* characters String.prototype.trim removes (those the model uses)
TrimChars == {" ", "\t", "\n", "u000B", "u00A0"}
\* ESCAPE_REPLACE_ARGS[0][0]: /[\u0000-\u0008\u000B-\u001F\u007F-\u009F]+/g
EscapeStripChars == {"u0001", "u000B"}
\* ESCAPE_REPLACE_ARGS[1][0]: the class of space, \u0009, \u00A0, \u2000-\u200B, ...
EscapeSpaceChars == {" ", "\t", "u00A0", "u200B"}

RECURSIVE TrimStart(_)
TrimStart(s) == IF s # <<>> /\ Head(s) \in TrimChars THEN TrimStart(Tail(s)) ELSE s
RECURSIVE TrimEnd(_)
TrimEnd(s) ==
  IF s # <<>> /\ s[Len(s)] \in TrimChars THEN TrimEnd(SubSeq(s, 1, Len(s) - 1)) ELSE s
Trim(s) == TrimEnd(TrimStart(s))

RECURSIVE DropRun(_, _)
DropRun(s, cls) == IF s # <<>> /\ Head(s) \in cls THEN DropRun(Tail(s), cls) ELSE s
\* str.replace(/[cls]+/g, rep)
RECURSIVE ReplaceRuns(_, _, _)
ReplaceRuns(s, cls, rep) ==
  IF s = <<>> THEN <<>>
  ELSE IF Head(s) \in cls THEN rep \o ReplaceRuns(DropRun(s, cls), cls, rep)
  ELSE <<Head(s)>> \o ReplaceRuns(Tail(s), cls, rep)

ESCAPE_REPLACE_ARGS ==
  << [cls |-> EscapeStripChars, rep |-> <<>>],
     [cls |-> EscapeSpaceChars, rep |-> <<" ">>] >>

\* is sub a substring of s (String.prototype.includes)
StrIncludes(s, sub) ==
  \E i \in 0..(Len(s) - Len(sub)) : SubSeq(s, i + 1, i + Len(sub)) = sub

(***************************************************************************)
(* ToNumber: the coercion behind isFinite(x), +x and BigInt(x).           *)
(***************************************************************************)
RECURSIVE DigitsVal(_)
DigitsVal(s) == IF s = <<>> THEN 0 ELSE DigitsVal(SubSeq(s, 1, Len(s) - 1)) * 10 + DigitVal(s[Len(s)])

AllDigits(s) == \A i \in DOMAIN s : IsDigit(s[i])

\* the numeric value of a string, NaN when it is no decimal literal;
\* at most two fraction digits are representable
StrToNum(str) ==
  LET s == Trim(str)
      dots == {i \in DOMAIN s : s[i] = "."}
  IN IF s = <<>> THEN Num(0)
     ELSE IF dots = {} THEN (IF AllDigits(s) THEN Num(DigitsVal(s) * Scale) ELSE NaN)
     ELSE IF Cardinality(dots) > 1 THEN NaN
     ELSE LET d == CHOOSE i \in dots : TRUE
              whole == SubSeq(s, 1, d - 1)
              frac == SubSeq(s, d + 1, Len(s))
          IN IF AllDigits(whole) /\ AllDigits(frac) /\ Len(whole) + Len(frac) > 0 /\ Len(frac) <= 2
             THEN Num(DigitsVal(whole) * Scale
                      + (IF Len(frac) = 1 THEN DigitsVal(frac) * 10 ELSE DigitsVal(frac)))
             ELSE NaN

RECURSIVE ToNumber(_)
ToNumber(x) ==
  CASE x.t = "undefined" -> NaN
    [] x.t = "null" -> Num(0)
    [] x.t = "boolean" -> IF x.b THEN Num(Scale) ELSE Num(0)
    [] x.t \in {"number", "NaN"} -> x
    [] x.t = "string" -> StrToNum(x.s)
    [] x.t = "array" ->
         IF Len(x.a) = 0 THEN Num(0)
         ELSE IF Len(x.a) > 1 THEN NaN
         ELSE IF x.a[1].t \in {"undefined", "null"} THEN Num(0)
         ELSE IF x.a[1].t \in {"boolean", "object"} THEN NaN
         ELSE ToNumber(x.a[1])
    [] OTHER -> NaN

\* isFinite(x)
IsFinite(x) == ToNumber(x).t = "number"

(***************************************************************************)
(* Rules.  An unset option is Nil, a set one Some(v).  A rule slot is a   *)
(* rule record, a list of rules (Array.isArray(rule)) or the null rule.   *)
(***************************************************************************)
Nil == [set |-> FALSE]
Some(v) == [set |-> TRUE, v |-> v]
\* rule.default: a literal or a function of (x, rule)
DefaultLit(v) == [set |-> TRUE, fn |-> FALSE, v |-> v]
DefaultFn(f) == [set |-> TRUE, fn |-> TRUE, f |-> f]

BaseRule ==
  [type |-> "string", optional |-> FALSE, default |-> Nil, parse |-> Nil,
   truthy |-> Nil, falsy |-> Nil,
   integer |-> FALSE, digits |-> Nil, roundingFn |-> Nil,
   min |-> Nil, max |-> Nil, length |-> Nil, values |-> Nil, pattern |-> Nil,
   trim |-> FALSE, escape |-> Nil, custom |-> Nil, dateonly |-> FALSE,
   nested |-> Nil, schema |-> Nil]
Rule(type) == [BaseRule EXCEPT !.type = type]
RuleList(rules) == [type |-> "list", rules |-> rules]
NullRule == [type |-> "null"]
IsArrayRule(rule) == rule.type = "list"

\* The callbacks a rule may carry (rule.default as a function, rule.parse,
\* rule.custom) are supplied by the application; the model offers these.
CallDefault(f, x, rule) ==
  CASE f = "byValue" -> (IF x.t = "undefined" THEN Str(<<"u">>)
                         ELSE IF x.t = "null" THEN Str(<<"n">>) ELSE Str(<<"e">>))
    [] OTHER -> Str(<<"d">>)
CallParse(p, x, rule) ==
  CASE p = "wrap" -> Arr(<<x>>)
    [] OTHER -> Str(<<"p">>)

\* typeof rule.default === 'function' ? rule.default(x, rule) : rule.default
DefaultValue(x, rule) ==
  IF rule.default.fn THEN CallDefault(rule.default.f, x, rule) ELSE rule.default.v
\* rule.default !== undefined
HasDefault(rule) == rule.default.set /\ (rule.default.fn \/ rule.default.v # Undefined)

(***************************************************************************)
(* Outcomes of a call: a returned value or a thrown error.                *)
(***************************************************************************)
Return(v) == [ok |-> TRUE, v |-> v]
Throw(e) == [ok |-> FALSE, e |-> e]
ValidationError(propertyPath, value, rule) ==
  [name |-> "ValidationError", propertyPath |-> propertyPath, value |-> value, rule |-> rule]
TypeError == [name |-> "TypeError"]
SyntaxError == [name |-> "SyntaxError"]
RangeError == [name |-> "RangeError"]

(***************************************************************************)
(* src/src/validator.ts: class Validator.  The length options (length,    *)
(* min and max of string and array rules) are integers; min, max and      *)
(* values of a number rule are fixed-point like the numbers they bound.   *)
(***************************************************************************)
RECURSIVE validate(_, _, _, _)
RECURSIVE resolve(_, _, _, _)
RECURSIVE array(_, _, _, _)
RECURSIVE object(_, _, _, _)

\* Validator.boolean without the lenient strings "1" and "0"
boolean_strict(x, rule, propertyPath, isQuery) ==
  IF x = Bool(TRUE) \/ (rule.truthy.set /\ Includes(rule.truthy.v, x))
  THEN Return(Bool(TRUE))
  ELSE IF x = Bool(FALSE) \/ (rule.falsy.set /\ Includes(rule.falsy.v, x))
  THEN Return(Bool(FALSE))
  ELSE Throw(ValidationError(propertyPath, x, rule))

boolean(x, rule, propertyPath, isQuery) ==
  IF x = Bool(TRUE) \/ (isQuery /\ x = Str(<<"1">>))
     \/ (rule.truthy.set /\ Includes(rule.truthy.v, x))
  THEN Return(Bool(TRUE))
  ELSE IF x = Bool(FALSE) \/ (isQuery /\ x = Str(<<"0">>))
          \/ (rule.falsy.set /\ Includes(rule.falsy.v, x))
  THEN Return(Bool(FALSE))
  ELSE Throw(ValidationError(propertyPath, x, rule))

\* Math[fn](n / q) * q on fixed-point n, for a step q that divides Scale
Rounded(fn, n, q) ==
  CASE fn = "floor" -> (n \div q) * q
    [] fn = "ceil" -> ((n + q - 1) \div q) * q
    [] OTHER -> ((2 * n + q) \div (2 * q)) * q

\* 10 ** k
RECURSIVE Pow10(_)
Pow10(k) == IF k = 0 THEN 1 ELSE 10 * Pow10(k - 1)

\* Validator.number with the checks on the number before rounding
number_checkUnrounded(x, rule, propertyPath) ==
  IF ~IsFinite(x) \/ x = Str(<<>>)
  THEN Throw(ValidationError(propertyPath, x, rule))
  ELSE LET n0 == ToNumber(x).n
           num == IF rule.digits.set /\ rule.digits.v > 0 /\ Pow10(rule.digits.v) < Scale
                  THEN Rounded(IF rule.roundingFn.set THEN rule.roundingFn.v ELSE "round",
                               n0, Scale \div Pow10(rule.digits.v))
                  ELSE n0
       IN IF \/ (rule.integer /\ n0 % Scale # 0)
             \/ (rule.min.set /\ n0 < rule.min.v)
             \/ (rule.max.set /\ n0 > rule.max.v)
             \/ (rule.values.set /\ ~Includes(rule.values.v, Num(n0)))
          THEN Throw(ValidationError(propertyPath, x, rule))
          ELSE Return(Num(num))

number(x, rule, propertyPath) ==
  IF ~IsFinite(x) \/ x = Str(<<>>)
  THEN Throw(ValidationError(propertyPath, x, rule))
  ELSE LET n0 == ToNumber(x).n
           num == IF rule.digits.set /\ rule.digits.v > 0 /\ Pow10(rule.digits.v) < Scale
                  THEN Rounded(IF rule.roundingFn.set THEN rule.roundingFn.v ELSE "round",
                               n0, Scale \div Pow10(rule.digits.v))
                  ELSE n0
       IN IF \/ (rule.integer /\ num % Scale # 0)
             \/ (rule.min.set /\ num < rule.min.v)
             \/ (rule.max.set /\ num > rule.max.v)
             \/ (rule.values.set /\ ~Includes(rule.values.v, Num(num)))
          THEN Throw(ValidationError(propertyPath, x, rule))
          ELSE Return(Num(num))

\* the loop over ESCAPE_REPLACE_ARGS: i = 0; i <= lvl && i < len
RECURSIVE EscapeFrom(_, _, _)
EscapeFrom(str, i, lvl) ==
  IF i <= lvl /\ i < Len(ESCAPE_REPLACE_ARGS)
  THEN EscapeFrom(ReplaceRuns(str, ESCAPE_REPLACE_ARGS[i + 1].cls, ESCAPE_REPLACE_ARGS[i + 1].rep),
                  i + 1, lvl)
  ELSE str
Escape(str, rule) ==
  IF rule.escape.set /\ rule.escape.v > 0 THEN EscapeFrom(str, 0, rule.escape.v) ELSE str

\* rule.pattern: a string (substring test) or a RegExp, here /^[0-9]+$/
PatternFails(rule, str) ==
  /\ rule.pattern.set
  /\ IF rule.pattern.v.re THEN ~(str # <<>> /\ AllDigits(str))
     ELSE ~StrIncludes(str, rule.pattern.v.s)

StringChecksFail(rule, str) ==
  \/ (rule.length.set /\ rule.length.v # Len(str))
  \/ (rule.min.set /\ Len(str) < rule.min.v)
  \/ (rule.max.set /\ Len(str) > rule.max.v)
  \/ (rule.values.set /\ ~Includes(rule.values.v, Str(str)))
  \/ PatternFails(rule, str)

\* typeof x === 'number' ? x.toString() : x
StringOf(x) ==
  IF x.t = "number" THEN Str(NumToStr(x.n))
  ELSE IF x.t = "NaN" THEN Str(<<"N", "a", "N">>) ELSE x

string(x, rule, propertyPath) ==
  IF TypeOf(x) \notin {"number", "string"}
  THEN Throw(ValidationError(propertyPath, x, rule))
  ELSE LET x1 == StringOf(x)
           trimmed == IF rule.trim THEN Trim(x1.s) ELSE x1.s
           str == Escape(trimmed, rule)
       IN IF StringChecksFail(rule, str)
          THEN Throw(ValidationError(propertyPath, x1, rule))
          ELSE Return(Str(str))

\* the loop of Validator.array over the elements, from index i (1-based here)
RECURSIVE arrayNested(_, _, _, _, _, _)
arrayNested(xs, nestedRule, propertyPath, isQuery, i, out) ==
  IF i > Len(xs) THEN Return(Arr(out))
  ELSE LET v == validate(xs[i], nestedRule, propertyPath \o "[" \o ToString(i - 1) \o "]", isQuery)
       IN IF ~v.ok THEN v
          ELSE arrayNested(xs, nestedRule, propertyPath, isQuery, i + 1,
                           IF Truthy(v.v) THEN Append(out, v.v) ELSE out)

array(x, rule, propertyPath, isQuery) ==
  IF \/ x.t # "array"
     \/ (rule.length.set /\ rule.length.v # Len(x.a))
     \/ (rule.min.set /\ Len(x.a) < rule.min.v)
     \/ (rule.max.set /\ Len(x.a) > rule.max.v)
  THEN Throw(ValidationError(propertyPath, x, rule))
  ELSE IF rule.nested.set
       THEN arrayNested(x.a, rule.nested.v, propertyPath, isQuery, 1, <<>>)
       ELSE Return(Arr(x.a))

\* out[key] = v
SetKey(o, key, v) ==
  IF \E i \in DOMAIN o : o[i].k = key
  THEN [i \in DOMAIN o |-> IF o[i].k = key THEN [k |-> key, v |-> v] ELSE o[i]]
  ELSE Append(o, [k |-> key, v |-> v])

\* the loops of Validator.object: entries is a sequence of [k, rule], the
\* schema's entries or every key of x paired with rule.nested
RECURSIVE objectEntries(_, _, _, _, _, _)
objectEntries(x, entries, propertyPath, isQuery, i, out) ==
  IF i > Len(entries) THEN Return(Obj(out))
  ELSE LET key == entries[i].k
           v == validate(Get(x, key), entries[i].rule, propertyPath \o "." \o key, isQuery)
       IN IF ~v.ok THEN v
          ELSE objectEntries(x, entries, propertyPath, isQuery, i + 1, SetKey(out, key, v.v))

object(x, rule, propertyPath, isQuery) ==
  IF x.t \notin {"object", "array"}
  THEN Throw(ValidationError(propertyPath, x, rule))
  ELSE IF rule.schema.set
       THEN objectEntries(x, rule.schema.v, propertyPath, isQuery, 1, <<>>)
       ELSE IF rule.nested.set
       THEN objectEntries(x, [i \in DOMAIN Keys(x) |-> [k |-> Keys(x)[i], rule |-> rule.nested.v]],
                          propertyPath, isQuery, 1, <<>>)
       ELSE Return(Obj(<<>>))

\* Validator[rule.type](x, rule, propertyPath, isQuery)
\* A Date: a time value in milliseconds, or an Invalid Date
DateOf(ts) == [t |-> "date", valid |-> TRUE, ts |-> ts]
InvalidDate == [t |-> "date", valid |-> FALSE]
DayMs == 86400000
\* the text 1970-01-0d of day d
IsoDay(d) == <<"1", "9", "7", "0", "-", "0", "1", "-", "0", Digits[d + 1]>>
\* new Date(str): an ISO date text, anything else here is no date
DateParse(str) ==
  IF /\ Len(str) = 10 /\ SubSeq(str, 1, 9) = SubSeq(IsoDay(1), 1, 9)
     /\ \E d \in 1..9 : str[10] = Digits[d + 1]
  THEN DateOf((DigitVal(str[10]) - 1) * DayMs)
  ELSE InvalidDate
\* new Date(v)
NewDate(v) ==
  CASE v.t = "date" -> v
    [] v.t = "null" -> DateOf(0)
    [] v.t = "boolean" -> DateOf(IF v.b THEN 1 ELSE 0)
    [] v.t = "number" -> DateOf(v.n \div Scale)
    [] v.t = "string" -> DateParse(v.s)
    [] OTHER -> InvalidDate
\* rule.min or rule.max as the property reads: undefined when not set
OptValue(o) == IF o.set THEN o.v ELSE Undefined

date(x, rule, propertyPath) ==
  LET ts == NewDate(x)
      min == NewDate(OptValue(rule.min))
      max == NewDate(OptValue(rule.max))
  IN IF ~ts.valid THEN Throw(ValidationError(propertyPath, x, rule))
     ELSE IF (min.valid /\ ts.ts < min.ts) \/ (max.valid /\ ts.ts > max.ts)
     THEN Throw(ValidationError(propertyPath, x, rule))
     ELSE Return(DateOf(ts.ts))

Coerce(x, rule, propertyPath, isQuery) ==
  CASE rule.type = "boolean" -> boolean(x, rule, propertyPath, isQuery)
    [] rule.type = "date" -> date(x, rule, propertyPath)
    [] rule.type = "number" -> number(x, rule, propertyPath)
    [] rule.type = "string" -> string(x, rule, propertyPath)
    [] rule.type = "array" -> array(x, rule, propertyPath, isQuery)
    [] rule.type = "object" -> object(x, rule, propertyPath, isQuery)
    [] OTHER -> Throw(TypeError)

\* rule.parse ? rule.parse(x, rule) : x
Parsed(x, rule) == IF rule.parse.set THEN CallParse(rule.parse.v, x, rule) ELSE x

\* IsAbsent with the rule.type !== 'string' test left out
IsAbsent_anyType(x, rule, isQuery) ==
  x.t \in {"null", "undefined"} \/ (isQuery /\ x = Str(<<>>))

\* x === null || x === undefined || (isQuery && x === '' && rule.type !== 'string')
IsAbsent(x, rule, isQuery) ==
  x.t \in {"null", "undefined"} \/ (isQuery /\ x = Str(<<>>) /\ rule.type # "string")

\* resolve testing rule.optional before rule.default
resolve_optionalFirst(x, rule, propertyPath, isQuery) ==
  IF rule = NullRule THEN Throw(TypeError)
  ELSE IF IsAbsent(x, rule, isQuery)
  THEN IF rule.optional THEN Return(Undefined)
       ELSE IF HasDefault(rule) THEN Return(Parsed(DefaultValue(x, rule), rule))
       ELSE Throw(ValidationError(propertyPath, x, rule))
  ELSE IF HasDefault(rule) /\ isEqual(x, DefaultValue(x, rule))
  THEN Return(Parsed(x, rule))
  ELSE LET r == Coerce(x, rule, propertyPath, isQuery)
       IN IF r.ok THEN Return(Parsed(r.v, rule)) ELSE r

resolve(x, rule, propertyPath, isQuery) ==
  IF rule = NullRule THEN Throw(TypeError)
  ELSE IF IsAbsent(x, rule, isQuery)
  THEN IF HasDefault(rule) THEN Return(Parsed(DefaultValue(x, rule), rule))
       ELSE IF rule.optional THEN Return(Undefined)
       ELSE Throw(ValidationError(propertyPath, x, rule))
  ELSE IF HasDefault(rule) /\ isEqual(x, DefaultValue(x, rule))
  THEN Return(Parsed(x, rule))
  ELSE LET r == Coerce(x, rule, propertyPath, isQuery)
       IN IF r.ok THEN Return(Parsed(r.v, rule)) ELSE r

\* validateList re-raising the last alternative's own error
RECURSIVE validateList_rethrow(_, _, _, _, _)
validateList_rethrow(x, rule, propertyPath, isQuery, i) ==
  IF i > Len(rule.rules) THEN Throw(ValidationError(propertyPath, x, rule))
  ELSE LET r == resolve(x, rule.rules[i], propertyPath, isQuery)
       IN IF r.ok \/ i = Len(rule.rules) THEN r
          ELSE validateList_rethrow(x, rule, propertyPath, isQuery, i + 1)

\* the loop of Validator.validate over a rule list, from rule i
RECURSIVE validateList(_, _, _, _, _)
validateList(x, rule, propertyPath, isQuery, i) ==
  IF i > Len(rule.rules) THEN Throw(ValidationError(propertyPath, x, rule))
  ELSE LET r == resolve(x, rule.rules[i], propertyPath, isQuery)
       IN IF r.ok THEN r ELSE validateList(x, rule, propertyPath, isQuery, i + 1)

validate(x, rule, propertyPath, isQuery) ==
  IF IsArrayRule(rule) THEN validateList(x, rule, propertyPath, isQuery, 1)
  ELSE resolve(x, rule, propertyPath, isQuery)

(***************************************************************************)
(* src/src/Validator.ts: the variant of class Validator without the       *)
(* lenient query mode and without rule.parse.  Its operators carry the    *)
(* prefix Validator_.                                                      *)
(***************************************************************************)
RECURSIVE Validator_validate(_, _, _)
RECURSIVE Validator_array(_, _, _)
RECURSIVE Validator_object(_, _, _)

\* rule.custom(str, rule)
CallCustom(c, str, rule) == Str(str \o <<"!">>)

Validator_boolean(x, rule, propertyPath) ==
  IF x = Bool(TRUE) \/ (rule.truthy.set /\ Includes(rule.truthy.v, x))
  THEN Return(Bool(TRUE))
  ELSE IF x = Bool(FALSE) \/ (rule.falsy.set /\ Includes(rule.falsy.v, x))
  THEN Return(Bool(FALSE))
  ELSE Throw(ValidationError(propertyPath, x, rule))

Validator_number(x, rule, propertyPath) ==
  IF ~IsFinite(x)
  THEN Throw(ValidationError(propertyPath, x, rule))
  ELSE LET num == ToNumber(x).n
       IN IF \/ (rule.integer /\ num % Scale # 0)
             \/ (rule.min.set /\ num < rule.min.v)
             \/ (rule.max.set /\ num > rule.max.v)
             \/ (rule.values.set /\ ~Includes(rule.values.v, Num(num)))
          THEN Throw(ValidationError(propertyPath, x, rule))
          ELSE Return(Num(num))

\* a bigint
BigIntOf(i) == [t |-> "bigint", i |-> i]
\* BigInt(x) for a string: StringToBigInt of the trimmed text
StrToBigInt(str) ==
  LET s == Trim(str)
  IN IF AllDigits(s) THEN Return(BigIntOf(DigitsVal(s))) ELSE Throw(SyntaxError)
\* BigInt(x): a number must be an integer, everything else is converted
\* through its primitive value, an array through the text of its join
BigInt(x) ==
  CASE x.t = "number" ->
         IF x.n % Scale = 0 THEN Return(BigIntOf(x.n \div Scale)) ELSE Throw(RangeError)
    [] x.t = "NaN" -> Throw(RangeError)
    [] x.t = "boolean" -> Return(BigIntOf(IF x.b THEN 1 ELSE 0))
    [] x.t = "string" -> StrToBigInt(x.s)
    [] x.t = "array" /\ Len(x.a) = 0 -> StrToBigInt(<<>>)
    [] x.t = "array" /\ Len(x.a) = 1 /\ x.a[1].t \in {"undefined", "null"} -> StrToBigInt(<<>>)
    [] x.t = "array" /\ Len(x.a) = 1 /\ x.a[1].t \in {"number", "string"} ->
         StrToBigInt(StringOf(x.a[1]).s)
    [] x.t \in {"undefined", "null"} -> Throw(TypeError)
    [] OTHER -> Throw(SyntaxError)

\* Validator.ts bigint; rule.min and rule.max are integers
Validator_bigint(x, rule, propertyPath) ==
  IF ~IsFinite(x) THEN Throw(ValidationError(propertyPath, x, rule))
  ELSE LET num == BigInt(x)
       IN IF ~num.ok THEN num
          ELSE IF \/ (rule.min.set /\ num.v.i < rule.min.v)
                  \/ (rule.max.set /\ num.v.i > rule.max.v)
          THEN Throw(ValidationError(propertyPath, x, rule))
          ELSE num

Validator_string(x, rule, propertyPath) ==
  IF TypeOf(x) \notin {"number", "string"}
  THEN Throw(ValidationError(propertyPath, x, rule))
  ELSE LET x1 == StringOf(x)
       IN IF StringChecksFail(rule, x1.s)
          THEN Throw(ValidationError(propertyPath, x1, rule))
          ELSE LET str == Escape(IF rule.trim THEN Trim(x1.s) ELSE x1.s, rule)
               IN IF rule.custom.set THEN Return(CallCustom(rule.custom.v, str, rule))
                  ELSE Return(Str(str))

\* the loops of Validator.array: rules[i] is the rule of element i
RECURSIVE Validator_arrayNested(_, _, _, _, _)
Validator_arrayNested(xs, rules, propertyPath, i, out) ==
  IF i > Len(xs) THEN Return(out)
  ELSE LET v == Validator_validate(xs[i], rules[i], propertyPath \o "[" \o ToString(i - 1) \o "]")
       IN IF ~v.ok THEN v
          ELSE Validator_arrayNested(xs, rules, propertyPath, i + 1, Append(out, v.v))

Validator_array(x, rule, propertyPath) ==
  IF x.t # "array" THEN Throw(ValidationError(propertyPath, x, rule))
  ELSE IF rule.nested.set /\ IsArrayRule(rule.nested.v) /\ Len(x.a) # Len(rule.nested.v.rules)
  THEN Throw(ValidationError(propertyPath, x, rule))
  ELSE LET out == IF ~rule.nested.set THEN Return(x.a)
                  ELSE Validator_arrayNested(x.a,
                         IF IsArrayRule(rule.nested.v) THEN rule.nested.v.rules
                         ELSE [i \in DOMAIN x.a |-> rule.nested.v],
                         propertyPath, 1, <<>>)
       IN IF ~out.ok THEN out
          ELSE IF \/ (rule.length.set /\ rule.length.v # Len(out.v))
                  \/ (rule.min.set /\ Len(out.v) < rule.min.v)
                  \/ (rule.max.set /\ Len(out.v) > rule.max.v)
          THEN Throw(ValidationError(propertyPath, x, rule))
          ELSE Return(Arr(out.v))

\* the loops of Validator.object building out; the method returns x
RECURSIVE Validator_objectEntries(_, _, _, _, _)
Validator_objectEntries(x, entries, propertyPath, i, out) ==
  IF i > Len(entries) THEN Return(Obj(out))
  ELSE LET key == entries[i].k
           v == Validator_validate(Get(x, key), entries[i].rule, propertyPath \o "." \o key)
       IN IF ~v.ok THEN v
          ELSE Validator_objectEntries(x, entries, propertyPath, i + 1, SetKey(out, key, v.v))

Validator_object(x, rule, propertyPath) ==
  IF x.t \notin {"object", "array"}
  THEN Throw(ValidationError(propertyPath, x, rule))
  ELSE LET out == IF rule.schema.set
                  THEN Validator_objectEntries(x, rule.schema.v, propertyPath, 1, <<>>)
                  ELSE IF rule.nested.set
                  THEN Validator_objectEntries(x,
                         [i \in DOMAIN Keys(x) |-> [k |-> Keys(x)[i], rule |-> rule.nested.v]],
                         propertyPath, 1, <<>>)
                  ELSE Return(Obj(<<>>))
       IN IF ~out.ok THEN out ELSE Return(x)

\* Validator[rule.type](x, rule, propertyPath)
\* rule.min = new Date(rule.min); rule.max = new Date(rule.max): the rule
\* object after the two assignments of Validator.date
Validator_dateAssign(rule) ==
  [rule EXCEPT !.min = Some(NewDate(OptValue(rule.min))),
               !.max = Some(NewDate(OptValue(rule.max)))]
\* Validator.date: what it returns or raises; the error raised after the
\* assignments carries the rule object as assigned
Validator_date(x, rule, propertyPath) ==
  LET d == NewDate(x)
      assigned == Validator_dateAssign(rule)
  IN IF ~d.valid THEN Throw(ValidationError(propertyPath, x, rule))
     ELSE IF \/ (assigned.min.v.valid /\ d.ts < assigned.min.v.ts)
             \/ (assigned.max.v.valid /\ d.ts > assigned.max.v.ts)
     THEN Throw(ValidationError(propertyPath, x, assigned))
     ELSE IF rule.dateonly THEN Return(Str(IsoDay(d.ts \div DayMs + 1)))
     ELSE Return(d)
\* the rule object after Validator.validate(x, rule) for a single rule: the
\* assignments are made when the call reaches Validator.date with a date
Validator_ruleAfter(x, rule) ==
  IF /\ rule.type = "date"
     /\ ~(x = Undefined /\ (HasDefault(rule) \/ rule.optional))
     /\ ~isEqual(x, IF rule.default.set THEN DefaultValue(x, rule) ELSE Undefined)
     /\ NewDate(x).valid
  THEN Validator_dateAssign(rule)
  ELSE rule

Validator_Coerce(x, rule, propertyPath) ==
  CASE rule.type = "boolean" -> Validator_boolean(x, rule, propertyPath)
    [] rule.type = "date" -> Validator_date(x, rule, propertyPath)
    [] rule.type = "number" -> Validator_number(x, rule, propertyPath)
    [] rule.type = "bigint" -> Validator_bigint(x, rule, propertyPath)
    [] rule.type = "string" -> Validator_string(x, rule, propertyPath)
    [] rule.type = "array" -> Validator_array(x, rule, propertyPath)
    [] rule.type = "object" -> Validator_object(x, rule, propertyPath)
    [] OTHER -> Throw(TypeError)

\* the body both branches of Validator.validate run for one rule r
Validator_one(x, r, propertyPath) ==
  IF r = NullRule THEN Throw(TypeError)
  ELSE IF x = Undefined
  THEN IF HasDefault(r) THEN Return(DefaultValue(x, r))
       ELSE IF r.optional THEN Return(Undefined)
       ELSE Validator_Coerce(x, r, propertyPath)
  ELSE IF isEqual(x, IF r.default.set THEN DefaultValue(x, r) ELSE Undefined)
  THEN Return(x)
  ELSE Validator_Coerce(x, r, propertyPath)

RECURSIVE Validator_validateList(_, _, _, _)
Validator_validateList(x, rule, propertyPath, i) ==
  IF i > Len(rule.rules) THEN Throw(ValidationError(propertyPath, x, rule))
  ELSE LET r == Validator_one(x, rule.rules[i], propertyPath)
       IN IF r.ok THEN r ELSE Validator_validateList(x, rule, propertyPath, i + 1)

Validator_validate(x, rule, propertyPath) ==
  IF IsArrayRule(rule) THEN Validator_validateList(x, rule, propertyPath, 1)
  ELSE Validator_one(x, rule, propertyPath)

(***************************************************************************)
(* The inputs the validator is exercised with.                            *)
(***************************************************************************)
MaxNum == 2

S_empty == <<>>
S_a == <<"a">>
S_ab == <<"a", "b">>

Strings == {S_empty, S_a, S_ab, <<"e">>, <<"0">>, <<"1">>, <<" ", "a">>}
Primitives ==
  {Undefined, Null, Bool(TRUE), Bool(FALSE)}
    \cup {Int2Num(i) : i \in 0..MaxNum} \cup {Num(Scale + Scale \div 2)}
    \cup {Num(Scale + Scale \div 4), Str(<<"1", ".", "2", "4">>)}
    \cup {Str(s) : s \in Strings}
Arrays ==
  {Arr(<<>>), Arr(<<Str(S_empty)>>), Arr(<<Int2Num(1)>>), Arr(<<Str(S_a), Undefined>>),
   Arr(<<Undefined, Int2Num(1)>>), Arr(<<Int2Num(1), Str(S_ab)>>), Arr(<<Str(S_ab), Int2Num(1)>>),
   Arr(<<Int2Num(1), Str(S_empty), Int2Num(0)>>), Arr(<<Int2Num(1), Int2Num(2), Str(S_ab)>>)}
Objects ==
  {Obj(<<>>),
   Obj(<<[k |-> "name", v |-> Str(S_ab)]>>),
   Obj(<<[k |-> "name", v |-> Str(S_ab)], [k |-> "extra", v |-> Str(S_a)]>>),
   Obj(<<[k |-> "extra", v |-> Str(S_a)], [k |-> "age", v |-> Str(S_empty)],
         [k |-> "name", v |-> Int2Num(1)]>>),
   Obj(<<[k |-> "0", v |-> Int2Num(1)]>>),
   Obj(<<[k |-> "active", v |-> Str(<<"1">>)]>>),
   Obj(<<[k |-> "items", v |-> Arr(<<Int2Num(1), Int2Num(2), Str(S_ab)>>)]>>)}
Values == Primitives \cup Arrays \cup Objects

Parses == {Nil, Some("wrap")}

StringRules ==
  {[Rule("string") EXCEPT !.optional = o, !.default = d, !.parse = p, !.min = m] :
     o \in BOOLEAN, d \in {Nil, DefaultLit(Str(S_a)), DefaultLit(Str(S_empty)), DefaultFn("byValue")},
     p \in Parses, m \in {Nil, Some(2)}}
NumberRules ==
  {[Rule("number") EXCEPT !.optional = o, !.default = d, !.parse = p, !.min = m] :
     o \in BOOLEAN, d \in {Nil, DefaultLit(Int2Num(0)), DefaultLit(Null), DefaultFn("byValue")},
     p \in Parses, m \in {Nil, Some(Scale)}}
\* number rules with digits, a rounding function and checks on the result
RoundingRules ==
  {[Rule("number") EXCEPT !.digits = dg, !.roundingFn = fn, !.integer = i, !.max = mx,
                           !.values = vs] :
     dg \in {Nil, Some(0), Some(1)}, fn \in {Nil, Some("floor"), Some("ceil")},
     i \in BOOLEAN, mx \in {Nil, Some(Scale + 2 * (Scale \div 10))},
     vs \in {Nil, Some(<<Int2Num(1), Num(Scale + 3 * (Scale \div 10))>>)}}
BooleanRules ==
  {[Rule("boolean") EXCEPT !.optional = o, !.default = d, !.parse = p, !.truthy = t,
                            !.falsy = f] :
     o \in BOOLEAN, d \in {Nil, DefaultLit(Bool(FALSE)), DefaultLit(Str(S_a))},
     p \in Parses, t \in {Nil, Some(<<Str(S_a), Int2Num(1)>>)},
     f \in {Nil, Some(<<Str(S_ab), Int2Num(0)>>)}}
BigintRules ==
  {[Rule("bigint") EXCEPT !.optional = o, !.min = m] : o \in BOOLEAN, m \in {Nil, Some(1)}}
LeafRules == StringRules \cup NumberRules \cup BooleanRules \cup BigintRules

\* the rules used as nested rules, schema fields and list alternatives
R_name == [Rule("string") EXCEPT !.min = Some(1)]
R_age == [Rule("number") EXCEPT !.optional = TRUE]
R_num == Rule("number")
R_numDefault == [Rule("number") EXCEPT !.default = DefaultLit(Int2Num(2))]
R_bool == Rule("boolean")
R_str2 == [Rule("string") EXCEPT !.min = Some(2), !.parse = Some("wrap")]
R_min2 == [Rule("string") EXCEPT !.min = Some(2)]
R_items == [Rule("array") EXCEPT !.nested = Some(R_num)]
InnerRules == {R_name, R_age, R_num, R_numDefault, R_bool, R_str2}

ArrayRules ==
  {[Rule("array") EXCEPT !.nested = n, !.min = m, !.default = d, !.optional = o] :
     n \in {Nil} \cup {Some(r) : r \in {R_age, R_num, R_numDefault, R_name, R_min2}},
     m \in {Nil, Some(2)}, d \in {Nil, DefaultLit(Arr(<<Int2Num(1)>>))}, o \in BOOLEAN}
\* array rules whose nested is an ordered list of rules
TupleRules ==
  {[Rule("array") EXCEPT !.nested = Some(RuleList(rs)), !.min = m] :
     rs \in {<<R_num, R_min2>>, <<R_age, R_num>>}, m \in {Nil, Some(2)}}
Schemas ==
  {<<[k |-> "name", rule |-> R_name], [k |-> "age", rule |-> R_age]>>,
   <<[k |-> "age", rule |-> R_numDefault]>>,
   <<[k |-> "items", rule |-> R_items]>>,
   <<[k |-> "active", rule |-> R_bool]>>,
   <<[k |-> "name", rule |-> RuleList(<<R_num, R_str2>>)], [k |-> "extra", rule |-> R_bool]>>}
ObjectRules ==
  {[Rule("object") EXCEPT !.schema = sc, !.nested = n, !.default = d, !.parse = p] :
     sc \in {Nil} \cup {Some(x) : x \in Schemas}, n \in {Nil, Some(R_name)},
     d \in {Nil, DefaultLit(Obj(<<[k |-> "name", v |-> Str(S_ab)], [k |-> "extra", v |-> Str(S_a)]>>))},
     p \in Parses}
ListRules ==
  {RuleList(<<>>)} \cup {RuleList(<<r>>) : r \in InnerRules \cup {NullRule}}
    \cup {RuleList(<<r1, r2>>) : r1 \in InnerRules \cup {NullRule}, r2 \in InnerRules}
    \cup {RuleList(<<R_num, R_bool, R_name>>)}
Rules == LeafRules \cup RoundingRules \cup ArrayRules \cup TupleRules \cup ObjectRules \cup ListRules \cup {NullRule}

Paths == {"this", "body"}

(***************************************************************************)
(* State.  call is one call of Validator.validate: its arguments and,     *)
(* once a validator has run, the file whose validator ran and the outcome.*)
(* app is the Application object and reqs the requests its server has     *)
(* received, each with the locals of its requestHandler run.              *)
(***************************************************************************)
VARIABLES call, app, reqs

vars == <<call, app, reqs>>

NotRun == [pending |-> TRUE]
\* no validator call is under way
NoCall == [file |-> "none"]
\* no Application has been constructed
NoApp == [status |-> "none"]

InitValidator ==
  /\ \E x \in Values, rule \in Rules, propertyPath \in Paths, isQuery \in BOOLEAN :
       call = [file |-> "pending", x |-> x, rule |-> rule, propertyPath |-> propertyPath,
               isQuery |-> isQuery, result |-> NotRun]
  /\ app = NoApp
  /\ reqs = <<>>

\* validate(x, rule, propertyPath, isQuery) of src/src/validator.ts
Validate ==
  /\ call.file = "pending"
  /\ call' = [call EXCEPT !.file = "validator.ts",
                          !.result = validate(call.x, call.rule, call.propertyPath, call.isQuery)]
  /\ UNCHANGED <<app, reqs>>

\* validate(x, rule, propertyPath) of src/src/Validator.ts, which has no isQuery
ValidatorValidate ==
  /\ call.file = "pending"
  /\ call' = [call EXCEPT !.file = "Validator.ts", !.isQuery = FALSE,
                          !.result = Validator_validate(call.x, call.rule, call.propertyPath)]
  /\ UNCHANGED <<app, reqs>>

NextValidator == Validate \/ ValidatorValidate

SpecValidator == InitValidator /\ [][NextValidator]_vars

(***************************************************************************)
(* Properties of the validator.                                           *)
(***************************************************************************)
Called == call.file # "pending"
\* the rule slot is a single rule
IsSingleRule(rule) == ~IsArrayRule(rule) /\ rule # NullRule
\* the outcome of validating the call's input against one rule alone, by the
\* validator that ran
CallOne(r) ==
  IF call.file = "validator.ts" THEN validate(call.x, r, call.propertyPath, call.isQuery)
  ELSE Validator_validate(call.x, r, call.propertyPath)
\* rule.default evaluated for the call's input
CallDefaultValue ==
  IF call.rule.default.fn THEN CallDefault(call.rule.default.f, call.x, call.rule)
  ELSE call.rule.default.v
\* v after rule.parse, when the call's rule declares one
CallParsed(v) ==
  IF call.rule.parse.set THEN CallParse(call.rule.parse.v, v, call.rule) ELSE v

\* C1: with a rule list, validate returns the outcome of the first rule that
\* validates without error, and when every rule raises it raises one
\* ValidationError carrying the call's path, the original input and the list.
C1_FirstAlternativeWins ==
  (Called /\ IsArrayRule(call.rule)) =>
    LET ok == {i \in DOMAIN call.rule.rules : CallOne(call.rule.rules[i]).ok}
    IN IF ok = {}
       THEN call.result = Throw(ValidationError(call.propertyPath, call.x, call.rule))
       ELSE call.result = CallOne(call.rule.rules[CHOOSE i \in ok : \A j \in ok : i <= j])

\* a list whose first rule raises and whose second rule accepts the input
C1_Witness ==
  /\ call.file = "validator.ts"
  /\ IsArrayRule(call.rule)
  /\ Len(call.rule.rules) = 2
  /\ ~CallOne(call.rule.rules[1]).ok
  /\ CallOne(call.rule.rules[2]).ok
  /\ call.result.ok

\* C2: for a single rule without default, a null or undefined input yields
\* undefined when the rule is optional and otherwise a ValidationError whose
\* propertyPath is the call's path.
C2_AbsentWithoutDefault ==
  (Called /\ IsSingleRule(call.rule) /\ ~call.rule.default.set
     /\ call.x \in {Null, Undefined}) =>
    IF call.rule.optional THEN call.result = Return(Undefined)
    ELSE /\ ~call.result.ok
         /\ call.result.e.name = "ValidationError"
         /\ call.result.e.propertyPath = call.propertyPath

\* the statement of C2 for src/src/validator.ts alone
C2_AbsentWithoutDefault_validator_ts ==
  call.file = "validator.ts" => C2_AbsentWithoutDefault

\* C3: for an absent input and a rule with a default, validate returns
\* parse(default), the default being the function's result for (x, rule) when
\* it is a function; the default is not checked against the rule and it
\* wins over optional.
C3_DefaultWhenAbsent ==
  (call.file = "validator.ts" /\ IsSingleRule(call.rule) /\ call.rule.default.set
     /\ call.x \in {Null, Undefined}) =>
    call.result = Return(CallParsed(CallDefaultValue))

\* an optional rule whose function default violates the rule's constraints
C3_Witness ==
  /\ call.file = "validator.ts"
  /\ IsSingleRule(call.rule)
  /\ call.x = Null
  /\ call.rule.optional
  /\ call.rule.default.set
  /\ call.rule.default.fn
  /\ call.rule.parse.set
  /\ ~Coerce(CallDefaultValue, call.rule, call.propertyPath, call.isQuery).ok
  /\ call.result.ok

\* C4: a present input equal to the rule's default is returned as
\* parse(default) without coercion, also when it violates the constraints.
C4_DefaultEchoed ==
  (call.file = "validator.ts" /\ IsSingleRule(call.rule) /\ call.rule.default.set
     /\ call.x \notin {Null, Undefined} /\ call.x = CallDefaultValue) =>
    call.result = Return(CallParsed(CallDefaultValue))

\* an array equal to the default that the array rule itself rejects
C4_Witness ==
  /\ call.file = "validator.ts"
  /\ IsSingleRule(call.rule)
  /\ call.rule.default.set
  /\ call.x.t = "array"
  /\ call.x = CallDefaultValue
  /\ ~Coerce(call.x, call.rule, call.propertyPath, call.isQuery).ok
  /\ call.result.ok

\* the outcome of the absent path for the call: default, optional, or failure
CallAbsentOutcome ==
  IF call.rule.default.set THEN Return(CallParsed(CallDefaultValue))
  ELSE IF call.rule.optional THEN Return(Undefined)
  ELSE Throw(ValidationError(call.propertyPath, call.x, call.rule))
\* the outcome of the present path for the call: the echoed default, or the
\* type's coercion routine followed by parse
CallPresentOutcome ==
  IF call.rule.default.set /\ call.x = CallDefaultValue THEN Return(CallParsed(call.x))
  ELSE LET r == Coerce(call.x, call.rule, call.propertyPath, call.isQuery)
       IN IF r.ok THEN Return(CallParsed(r.v)) ELSE r
\* the call reaches the coercion routine of its rule's type
CallCoerces ==
  /\ call.file # "pending"
  /\ IsSingleRule(call.rule)
  /\ call.x \notin {Null, Undefined}
  /\ ~(call.isQuery /\ call.x = Str(<<>>) /\ call.rule.type # "string")
  /\ ~(call.rule.default.set /\ isEqual(call.x, CallDefaultValue))
\* element i of the call's array input validated on its own, in the call's mode
CallElement(i) ==
  validate(call.x.a[i], call.rule.nested.v,
           call.propertyPath \o "[" \o ToString(i - 1) \o "]", call.isQuery)
\* field i of the call's schema validated on its own, by the validator that ran
CallField(i) ==
  LET f == call.rule.schema.v[i]
  IN IF call.file = "validator.ts"
     THEN validate(Get(call.x, f.k), f.rule, call.propertyPath \o "." \o f.k, call.isQuery)
     ELSE Validator_validate(Get(call.x, f.k), f.rule, call.propertyPath \o "." \o f.k)

C5_TopLevel ==
  (call.file = "validator.ts" /\ IsSingleRule(call.rule) /\ call.x = Str(<<>>)) =>
    IF call.isQuery /\ call.rule.type # "string"
    THEN call.result = CallAbsentOutcome
    ELSE call.result = CallPresentOutcome
C5_Elements ==
  (call.file = "validator.ts" /\ CallCoerces /\ call.rule.type = "array"
     /\ call.rule.nested.set /\ call.x.t = "array"
     /\ ~(call.rule.length.set /\ call.rule.length.v # Len(call.x.a))
     /\ ~(call.rule.min.set /\ Len(call.x.a) < call.rule.min.v)
     /\ ~(call.rule.max.set /\ Len(call.x.a) > call.rule.max.v)) =>
    LET bad == {i \in DOMAIN call.x.a : ~CallElement(i).ok}
    IN IF bad = {} THEN call.result.ok
       ELSE call.result = CallElement(CHOOSE i \in bad : \A j \in bad : i <= j)
C5_Fields ==
  (call.file = "validator.ts" /\ CallCoerces /\ call.rule.type = "object"
     /\ call.rule.schema.set /\ call.x.t \in {"object", "array"}) =>
    LET bad == {i \in DOMAIN call.rule.schema.v : ~CallField(i).ok}
    IN IF bad = {} THEN call.result.ok
       ELSE call.result = CallField(CHOOSE i \in bad : \A j \in bad : i <= j)

\* C5: the empty string takes the absent path exactly when the call is in
\* lenient query mode and the rule's type is not string, and otherwise the
\* present path; the elements of an array and the fields of a schema are
\* validated in the mode of the call.
C5_LenientEmptyString == C5_TopLevel /\ C5_Elements /\ C5_Fields

\* a lenient call whose array holds '' under an optional number rule: the
\* element is taken as absent and the array validates
C5_Witness ==
  /\ call.file = "validator.ts"
  /\ call.isQuery
  /\ CallCoerces
  /\ call.rule.type = "array"
  /\ call.rule.nested.set
  /\ call.rule.nested.v.type = "number"
  /\ call.x.t = "array"
  /\ \E i \in DOMAIN call.x.a : call.x.a[i] = Str(<<>>) /\ CallElement(i) = Return(Undefined)
  /\ call.result.ok

\* C6: with a schema, the object validate returns has exactly the schema's
\* field names as keys, each holding the validated value of that field, so
\* no key of the input outside the schema appears in it.
C6_Whitelist ==
  (CallCoerces /\ call.rule.type = "object" /\ call.rule.schema.set
     /\ ~call.rule.parse.set /\ call.result.ok) =>
    /\ call.result.v.t = "object"
    /\ [i \in DOMAIN call.result.v.o |-> call.result.v.o[i].k]
         = [i \in DOMAIN call.rule.schema.v |-> call.rule.schema.v[i].k]
    /\ \A i \in DOMAIN call.rule.schema.v :
         CallField(i).ok /\ call.result.v.o[i].v = CallField(i).v

\* the statement of C6 for src/src/validator.ts alone
C6_Whitelist_validator_ts ==
  call.file = "validator.ts" => C6_Whitelist

\* an input with a key outside the schema, validated by src/src/validator.ts
C6_Witness_validator_ts ==
  /\ call.file = "validator.ts"
  /\ CallCoerces
  /\ call.rule.type = "object"
  /\ call.rule.schema.set
  /\ ~call.rule.parse.set
  /\ call.x.t = "object"
  /\ \E i \in DOMAIN call.x.o : \A j \in DOMAIN call.rule.schema.v :
       call.x.o[i].k # call.rule.schema.v[j].k
  /\ call.result.ok

(***************************************************************************)
(* The application.  Two versions of the Application class are in the     *)
(* repository: src/unnamed/part_002 (with providers and the 400 wrapping  *)
(* of validation errors) and src/src/Application.ts.  app.file names the  *)
(* version that runs.                                                     *)
(***************************************************************************)
Files == {"part_002", "Application.ts"}

\* utils.ts: new HttpException(statusCode, message, details)
HttpException(statusCode, message, details) ==
  [name |-> "HttpException", statusCode |-> statusCode, message |-> message, details |-> details]
\* new Error(message)
Error(message) == [name |-> "Error", message |-> message]

\* the string s begins with prefix
StartsWith(s, prefix) == Len(s) >= Len(prefix) /\ SubSeq(s, 1, Len(prefix)) = prefix

(***************************************************************************)
(* decorators.ts: Controller builds each endpoint's location.  A location *)
(* is handled segment by segment: the text between the slashes.           *)
(***************************************************************************)
\* the segment an endpoint declares with the RegExp /\d+/, after line 105
\* has wrapped its source in a capture group
DigitsGroup == "(\\d+)"
\* the path segments \d+ matches in full
DigitSegments == {"7", "42"}

\* String.prototype.toLowerCase on the segment names in use
ToLowerCase(seg) ==
  CASE seg = "Users" -> "users"
    [] seg = "UNKNOWN" -> "unknown"
    [] OTHER -> seg

\* segs.join('/')
RECURSIVE Join(_)
Join(segs) ==
  IF segs = <<>> THEN ""
  ELSE IF Len(segs) = 1 THEN segs[1]
  ELSE segs[1] \o "/" \o Join(Tail(segs))

\* `/${[controllerName, actionName].filter(Boolean).join('/').toLowerCase()}`
\* as the list of its segments
LocationSegments(controllerName, actionName) ==
  LET named == SelectSeq(<<controllerName>> \o actionName, LAMBDA seg : seg # "")
  IN [i \in DOMAIN named |-> ToLowerCase(named[i])]
LocationTemplate(segs) == "/" \o Join(segs)

\* location.match(ep.location) for ep.location = new RegExp(`^${location}$`):
\* null (Nil) when the whole path does not match, else the captured groups.
\* The expression has no flags, so letters match in their own case only.
SegmentMatches(pat, seg) == IF pat = DigitsGroup THEN seg \in DigitSegments ELSE pat = seg
Match(path, location) ==
  IF Len(path) = Len(location) /\ \A i \in DOMAIN path : SegmentMatches(location[i], path[i])
  THEN Some(SelectSeq([i \in DOMAIN path |-> IF location[i] = DigitsGroup THEN path[i] ELSE ""],
                      LAMBDA g : g # ""))
  ELSE Nil

\* HTTP methods that carry a body by default (decorators.ts line 85)
BodyMethods == {"POST", "PUT", "PATCH", "DELETE"}

\* Controller(options)(target): the endpoints of one controller class, in
\* the key order of its endpoint table, completed from the controller's
\* options.
Controller(target) ==
  [i \in DOMAIN target.endpoints |->
     LET e == target.endpoints[i]
         method == IF e.method.set THEN e.method.v ELSE target.method
         location == LocationSegments(target.path, e.path)
     IN [key |-> e.key,
         controller |-> [name |-> target.name, deps |-> target.deps,
                         optionalDeps |-> target.optionalDeps],
         method |-> method,
         bodyType |-> IF ~e.bodyType.set /\ method \in BodyMethods THEN Some("json") ELSE e.bodyType,
         authHandler |-> IF e.authHandler.set THEN e.authHandler ELSE target.authHandler,
         middleware |-> target.middleware \o e.middleware,
         responseHandler |-> IF e.responseHandler.set THEN e.responseHandler
                             ELSE target.responseHandler,
         location |-> location,
         locationTemplate |-> LocationTemplate(location),
         query |-> e.query, body |-> e.body, bodyRule |-> e.bodyRule, bodyParser |-> e.bodyParser]]

(***************************************************************************)
(* The controllers and application options the model is run with.         *)
(***************************************************************************)
BaseEndpoint ==
  [key |-> "", method |-> Nil, path |-> <<>>, bodyType |-> Nil, authHandler |-> Nil,
   middleware |-> <<>>, responseHandler |-> Nil, query |-> Nil, body |-> Nil,
   bodyRule |-> Nil, bodyParser |-> Nil]
BaseController ==
  [name |-> "", path |-> "", method |-> "GET", authHandler |-> Nil, middleware |-> <<>>,
   responseHandler |-> Nil, deps |-> <<>>, optionalDeps |-> {}, endpoints |-> <<>>]

\* POST /users, GET /users and GET /users/(\d+), declared in this order
UsersController ==
  [BaseController EXCEPT
     !.name = "UsersController", !.path = "Users", !.deps = <<"REQUEST", "Db">>,
     !.endpoints =
       <<[BaseEndpoint EXCEPT !.key = "create", !.method = Some("POST"),
            !.body = Some(<<[k |-> "name", rule |-> R_name]>>)],
         [BaseEndpoint EXCEPT !.key = "list",
            !.query = Some(<<[k |-> "id", rule |-> R_age]>>)],
         [BaseEndpoint EXCEPT !.key = "get", !.path = <<DigitsGroup>>,
            !.middleware = <<"e1", "e2">>, !.authHandler = Some("authHandler"),
            !.responseHandler = Some("endpoint.responseHandler")]>>]
\* GET /users once more, and PUT /users/echo with a body rule
AdminController ==
  [BaseController EXCEPT
     !.name = "AdminController", !.path = "users", !.middleware = <<"c1">>,
     !.endpoints =
       <<[BaseEndpoint EXCEPT !.key = "index"],
         [BaseEndpoint EXCEPT !.key = "echo", !.method = Some("PUT"), !.path = <<"echo">>,
            !.bodyRule = Some(R_num)]>>]

\* bodies taken as urlencoded, as a stream, as json without any rule and as
\* multipart with a body rule
FormsController ==
  [BaseController EXCEPT
     !.name = "FormsController", !.path = "forms",
     !.endpoints =
       <<[BaseEndpoint EXCEPT !.key = "submit", !.method = Some("POST"),
            !.bodyType = Some("urlencoded"),
            !.body = Some(<<[k |-> "age", rule |-> R_age]>>)],
         [BaseEndpoint EXCEPT !.key = "upload", !.method = Some("PUT"),
            !.bodyType = Some("stream"),
            !.body = Some(<<[k |-> "name", rule |-> R_name]>>)],
         [BaseEndpoint EXCEPT !.key = "raw", !.method = Some("PATCH")],
         [BaseEndpoint EXCEPT !.key = "flags",
            !.query = Some(<<[k |-> "active", rule |-> R_bool]>>)],
         [BaseEndpoint EXCEPT !.key = "import", !.method = Some("DELETE"),
            !.bodyType = Some("multipart"),
            !.bodyRule = Some([Rule("object") EXCEPT
                                 !.schema = Some(<<[k |-> "age", rule |-> R_age]>>)])]>>]

BaseOptions ==
  [controllers |-> <<>>, middlewares |-> <<>>, providers |-> {}, responseHandler |-> Nil]
Options ==
  {[BaseOptions EXCEPT !.controllers = <<UsersController>>, !.middlewares = <<"m1", "m2">>,
                       !.providers = {"Db"}],
   [BaseOptions EXCEPT !.controllers = <<UsersController>>,
                       !.responseHandler = Some("options.responseHandler")],
   [BaseOptions EXCEPT !.controllers = <<AdminController>>, !.middlewares = <<"m1">>],
   [BaseOptions EXCEPT !.controllers = <<UsersController, AdminController>>,
                       !.providers = {"Db"}],
   [BaseOptions EXCEPT !.controllers = <<AdminController, UsersController>>],
   [BaseOptions EXCEPT !.controllers = <<FormsController>>]}

(***************************************************************************)
(* Application construction.                                              *)
(***************************************************************************)
\* controllers.map(c => Object.values(endpoints of c)).flat()
RECURSIVE Flat(_)
Flat(lists) == IF lists = <<>> THEN <<>> ELSE Head(lists) \o Flat(Tail(lists))

\* `${ep.method} ${ep.locationTemplate}` with the controller's name added:
\* endpoints of different controllers never compare equal
LocationKey_perController(ep) ==
  ep.controller.name \o " " \o ep.method \o " " \o ep.locationTemplate
\* `${ep.method} ${ep.locationTemplate}`
LocationKey(ep) == ep.method \o " " \o ep.locationTemplate

\* Array.prototype.indexOf, counting from 1; 0 when x is not in the list
IndexOf(list, x) ==
  IF \E i \in DOMAIN list : list[i] = x
  THEN CHOOSE i \in DOMAIN list : list[i] = x /\ \A j \in 1..(i - 1) : list[j] # x
  ELSE 0

\* loadEndpoints(): the route table, or the Error of the first location
\* that an earlier endpoint already has
loadEndpoints(options) ==
  LET endpoints == Flat([i \in DOMAIN options.controllers |-> Controller(options.controllers[i])])
      locationTemplates == [i \in DOMAIN endpoints |-> LocationKey(endpoints[i])]
      dups == {i \in DOMAIN locationTemplates : IndexOf(locationTemplates, locationTemplates[i]) # i}
  IN IF dups # {}
     THEN Throw(Error("Some endpoints have the same location: "
                        \o locationTemplates[CHOOSE i \in dups : \A j \in dups : i <= j]))
     ELSE Return(endpoints)

\* new Application(options): the constructor fills in the options, loads
\* the endpoints and only then creates the HTTP server.
Create ==
  /\ app.status = "none"
  /\ LET loaded == loadEndpoints(app.options)
     IN app' = IF loaded.ok
               THEN [app EXCEPT !.status = "ready", !.endpoints = loaded.v, !.server = TRUE,
                                !.responseHandler =
                                  IF app.options.responseHandler.set
                                  THEN app.options.responseHandler.v
                                  ELSE "this.responseHandler"]
               ELSE [app EXCEPT !.status = "failed", !.error = Some(loaded.e)]
  /\ UNCHANGED <<call, reqs>>

\* listen(port, host): from now on the server hands requests to requestHandler
Listen ==
  /\ app.status = "ready"
  /\ app' = [app EXCEPT !.status = "listening"]
  /\ UNCHANGED <<call, reqs>>

(***************************************************************************)
(* Requests.  A request has a method, a url (the path segments and, after *)
(* a '?', the query string as its key=value pairs), a Content-Type and a  *)
(* body, given by what the json or qs parser makes of its bytes.          *)
(***************************************************************************)
MaxRequests == 2

\* Content-Length announces length bytes, the stream delivers received
\* bytes and then ends, is aborted or fails; encodingSet: the stream already
\* has a decoder (req.setEncoding was called)
BaseRequest ==
  [method |-> "GET", location |-> <<>>, querystring |-> Nil, contentType |-> Nil,
   cookie |-> Nil, charset |-> Nil, length |-> Some(0), received |-> 0, encodingSet |-> FALSE,
   ending |-> "end", text |-> S_empty, parsed |-> Throw(SyntaxError)]
JsonRequest(method, location, value) ==
  [BaseRequest EXCEPT !.method = method, !.location = location,
                      !.contentType = Some("application/json"), !.length = Some(1),
                      !.received = 1, !.parsed = Return(value)]
\* GET /forms?active=1
ActiveRequest ==
  [BaseRequest EXCEPT !.location = <<"forms">>,
                      !.querystring = Some(<<[k |-> "active", v |-> <<"1">>]>>)]
\* a body for /forms that says age= and nothing else
EmptyAge == JsonRequest("GET", <<"forms">>, Obj(<<[k |-> "age", v |-> Str(S_empty)]>>))
Requests ==
  {[BaseRequest EXCEPT !.location = <<"users">>,
                       !.querystring = Some(<<[k |-> "id", v |-> <<"1">>]>>),
                       !.cookie = Some(<<[k |-> "sid", v |-> S_a]>>)],
   [BaseRequest EXCEPT !.location = <<"users">>,
                       !.querystring = Some(<<[k |-> "id", v |-> S_a]>>)],
   [BaseRequest EXCEPT !.method = "HEAD", !.location = <<"users">>],
   ActiveRequest,
   [BaseRequest EXCEPT !.location = <<"users", "7">>],
   [BaseRequest EXCEPT !.location = <<"Users">>],
   [BaseRequest EXCEPT !.method = "DELETE", !.location = <<"unknown">>],
   JsonRequest("POST", <<"users">>, Obj(<<[k |-> "name", v |-> Str(S_ab)]>>)),
   JsonRequest("POST", <<"users">>, Obj(<<[k |-> "name", v |-> Str(S_empty)]>>)),
   [BaseRequest EXCEPT !.method = "POST", !.location = <<"users">>],
   [BaseRequest EXCEPT !.method = "POST", !.location = <<"users">>,
                       !.contentType = Some("application/json")],
   JsonRequest("PUT", <<"users", "echo">>, Int2Num(1)),
   [EmptyAge EXCEPT !.method = "POST", !.contentType = Some("application/x-www-form-urlencoded")],
   [EmptyAge EXCEPT !.method = "PUT"],
   [EmptyAge EXCEPT !.method = "PATCH",
                    !.cookie = Some(<<[k |-> "sid", v |-> S_a], [k |-> "sid", v |-> S_ab]>>)],
   [EmptyAge EXCEPT !.method = "DELETE", !.contentType = Some("multipart/form-data")]}

\* (req.url || '').split('?', limit)
SplitUrl(req, limit) == <<req.location, IF limit >= 2 THEN req.querystring ELSE Nil>>

\* qs.parse(querystring || ''): every value is a string
QsParse(querystring) ==
  IF ~querystring.set THEN Obj(<<>>)
  ELSE Obj([i \in DOMAIN querystring.v |->
              [k |-> querystring.v[i].k, v |-> Str(querystring.v[i].v)]])

\* req.headers, as far as the application reads them
Headers(req) == [contentType |-> req.contentType, cookie |-> req.cookie]

\* cookies[name] = value for the object cookies
SetCookie(cookies, name, value) ==
  IF \E i \in DOMAIN cookies.o : cookies.o[i].k = name
  THEN Obj([i \in DOMAIN cookies.o |->
              IF cookies.o[i].k = name THEN [k |-> name, v |-> value] ELSE cookies.o[i]])
  ELSE Obj(Append(cookies.o, [k |-> name, v |-> value]))
\* the loop of parseCookie over the items name=value of the Cookie header:
\* a name that already has a truthy value collects its values in an array
RECURSIVE parseCookieItems(_, _)
parseCookieItems(items, cookies) ==
  IF items = <<>> THEN cookies
  ELSE LET name == Head(items).k
           value == Str(Head(items).v)
           old == Get(cookies, name)
       IN parseCookieItems(Tail(items),
            SetCookie(cookies, name,
                      IF Truthy(old)
                      THEN Arr((IF old.t = "array" THEN old.a ELSE <<old>>) \o <<value>>)
                      ELSE value))
\* utils.ts parseCookie(req)
parseCookie(req) ==
  IF req.cookie.set /\ req.cookie.v # <<>> THEN parseCookieItems(req.cookie.v, Obj(<<>>))
  ELSE Obj(<<>>)

\* utils.ts BodyTypes[type]
BodyTypes(type) ==
  CASE type = "application/json" -> "json"
    [] type = "application/x-www-form-urlencoded" -> "urlencoded"
    [] type = "multipart/form-data" -> "multipart"
    [] OTHER -> "undefined"

IncorrectContentType == HttpException(400, "", Error("Incorrect header \"Content-Type\""))
\* the request itself, handed over as a stream
Stream == [t |-> "stream"]

\* contentType.parse(req): the media type and the parameters of the header,
\* or the TypeError of a header that is not of the form type/subtype
ContentTypeParse(req) ==
  LET header == req.contentType.v
  IN IF \E i \in 2..(Len(header) - 1) : SubSeq(header, i, i) = "/"
     THEN Return([type |-> header, parameters |-> [charset |-> req.charset]])
     ELSE Throw(TypeError)

\* utils.ts readBody(req, encoding, limit): the bytes of the body, as text
\* when an encoding is given.  An undefined length or limit makes the
\* comparisons `length > limit` and `received > limit` false, and an
\* undefined length differs from every received count.
readBody(req, encoding, limit) ==
  IF encoding.set /\ encoding.v # "utf-8"
  THEN Throw(HttpException(415, "specified encoding unsupported", [encoding |-> encoding.v]))
  ELSE IF req.length.set /\ limit.set /\ req.length.v > limit.v
  THEN Throw(HttpException(413, "request entity too large",
                           [expected |-> req.length, limit |-> limit]))
  ELSE IF req.encodingSet
  THEN Throw(HttpException(500, "stream encoding should not be set", [none |-> TRUE]))
  ELSE IF req.received > 0 /\ limit.set /\ req.received > limit.v
  THEN Throw(HttpException(413, "request entity too large",
                           [limit |-> limit, received |-> req.received]))
  ELSE IF req.ending = "aborted"
  THEN Throw(HttpException(400, "request aborted",
                           [code |-> "ECONNABORTED", expected |-> req.length,
                            received |-> req.received]))
  ELSE IF req.ending = "error" THEN Throw(Error("stream"))
  ELSE IF req.length # Some(req.received)
  THEN Throw(HttpException(400, "request size did not match content length",
                           [expected |-> req.length, received |-> req.received]))
  ELSE Return(Str(req.text))

\* the switch of parseBody (utils.ts 459-512): what the try block returns or
\* throws; parsers.json.parse, parsers.qs.parse and the multipart form
\* parser give req.parsed
parseBodyType(req, bodyType, type, encoding, limit) ==
  CASE bodyType \in {"json", "urlencoded"} ->
         IF BodyTypes(type) # bodyType THEN Throw(IncorrectContentType)
         ELSE LET raw == readBody(req, encoding, limit)
              IN IF raw.ok THEN req.parsed ELSE raw
    [] bodyType = "multipart" ->
         IF BodyTypes(type) # bodyType THEN Throw(IncorrectContentType) ELSE req.parsed
    [] bodyType = "stream" -> Return(Stream)
    [] bodyType = "text" ->
         IF ~StartsWith(type, "text/") THEN Throw(IncorrectContentType)
         ELSE readBody(req, encoding, limit)
    [] OTHER -> readBody(req, Nil, limit)

\* the catch of parseBody (utils.ts 513-519), not applied: every error of
\* the try block is rethrown as it is
Wrap400_rethrow(outcome) == outcome
\* the catch of parseBody (utils.ts 513-519)
Wrap400(outcome) ==
  IF outcome.ok \/ outcome.e.name = "HttpException" THEN outcome
  ELSE Throw(HttpException(400, "Bad Request", outcome.e))

\* utils.ts parseBody(req, bodyType, parsers, options), limit being
\* options[bodyType]?.limit
parseBody(req, bodyType, limit) ==
  IF req.method \notin BodyMethods THEN Return(Undefined)
  ELSE IF ~req.contentType.set \/ req.contentType = Some("") THEN Throw(IncorrectContentType)
  ELSE LET header == ContentTypeParse(req)
       IN IF ~header.ok THEN header
          ELSE LET encoding == IF header.v.parameters.charset.set
                               THEN header.v.parameters.charset ELSE Some("utf-8")
               IN Wrap400(parseBodyType(req, bodyType, header.v.type, encoding, limit))

(***************************************************************************)
(* requestHandler.  Each request has its own run of the async function:   *)
(* pc is the step the run is at, the other fields are its locals, and log *)
(* records, in order, every callback and step the run has executed.       *)
(* Every step is an action of its own, so runs of different requests      *)
(* interleave between any two steps: at every await of the code and also  *)
(* between the statements that the code executes without yielding.        *)
(***************************************************************************)
Event(step, outcome, arg) == [step |-> step, outcome |-> outcome, arg |-> arg]

\* Promise.resolve(this.responseHandler).then(async (responseHandler) => ...
NewRun(req) ==
  [pc |-> "globalMiddlewares", req |-> req, i |-> 1, responseHandler |-> app.responseHandler,
   endpoint |-> 0, params |-> <<>>, controller |-> Nil, auth |-> Nil, query |-> Nil,
   body |-> Nil, responseBody |-> Nil, err |-> Nil, log |-> <<>>]

\* a request arrives at the listening server; requests are numbered in
\* their order of arrival
Arrive(r) ==
  /\ app.status = "listening"
  /\ Len(reqs) = r - 1
  /\ \E req \in Requests : reqs' = Append(reqs, NewRun(req))
  /\ UNCHANGED <<call, app>>

Running(r, pc) == r \in DOMAIN reqs /\ reqs[r].pc = pc
\* the run of request r goes on as q
Continue(r, q) == reqs' = [reqs EXCEPT ![r] = q] /\ UNCHANGED <<call, app>>
\* the run of request r throws e at the given step
Failed(q, step, e, arg) ==
  [q EXCEPT !.pc = "catch", !.err = Some(e), !.log = Append(q.log, Event(step, Throw(e), arg))]

\* what a middleware may do: return or resolve to a value, or throw
MiddlewareOutcomes ==
  {Return(Bool(FALSE)), Return(Bool(TRUE)), Return(Str(S_a)), Throw(Error("middleware"))}

\* resolveMiddlewares line 153 with a test for true only
MiddlewareHalts_onlyTrue(response) == response = Bool(TRUE)
\* resolveMiddlewares line 153: if (response) return true
MiddlewareHalts(response) == Truthy(response)

\* resolveMiddlewares(req, res, middlewares): one turn of its loop, or its
\* return of false when the list is exhausted; a result of true makes
\* requestHandler return at once
resolveMiddlewares(q, step, middlewares, outcome, next) ==
  IF q.i > Len(middlewares) THEN [q EXCEPT !.pc = next, !.i = 1]
  ELSE IF ~outcome.ok THEN Failed(q, step, outcome.e, middlewares[q.i])
  ELSE LET logged == Append(q.log, Event(step, outcome, middlewares[q.i]))
       IN IF MiddlewareHalts(outcome.v) THEN [q EXCEPT !.pc = "halted", !.log = logged]
          ELSE [q EXCEPT !.i = q.i + 1, !.log = logged]

GlobalMiddleware(r) ==
  /\ Running(r, "globalMiddlewares")
  /\ \E outcome \in MiddlewareOutcomes :
       Continue(r, resolveMiddlewares(reqs[r], "globalMiddleware", app.options.middlewares,
                                      outcome, "routeMatch"))

\* Array.prototype.find over the indices that pass its test: the first
\* one, 0 when there is none
First(indices) ==
  IF indices = {} THEN 0 ELSE CHOOSE i \in indices : \A j \in indices : i <= j

\* part_002 221-229: the path matches and the method is the endpoint's,
\* or HEAD for a GET endpoint
find(endpoints, location, method) ==
  First({i \in DOMAIN endpoints :
           /\ Match(location, endpoints[i].location).set
           /\ \/ method = endpoints[i].method
              \/ (method = "HEAD" /\ endpoints[i].method = "GET")})
\* Application.ts 155-157: the first endpoint whose path matches, and a
\* 404 when its method is not the request's
Application_find(endpoints, location, method) ==
  LET i == First({k \in DOMAIN endpoints : Match(location, endpoints[k].location).set})
  IN IF i = 0 \/ endpoints[i].method # method THEN 0 ELSE i

NotFound(file) ==
  IF file = "part_002" THEN HttpException(404, "", Error("Not found"))
  ELSE HttpException(404, "Not found", Nil)

RouteMatch(r) ==
  /\ Running(r, "routeMatch")
  /\ LET q == reqs[r]
         location == SplitUrl(q.req, IF app.file = "part_002" THEN 2 ELSE 1)[1]
         i == IF app.file = "part_002" THEN find(app.endpoints, location, q.req.method)
              ELSE Application_find(app.endpoints, location, q.req.method)
     IN Continue(r, IF i = 0 THEN Failed(q, "routeMatch", NotFound(app.file), location)
                    ELSE [q EXCEPT !.pc = "endpointMiddlewares", !.endpoint = i,
                                   !.params = Match(location, app.endpoints[i].location).v,
                                   !.log = Append(q.log, Event("routeMatch", Return(i), location))])

EndpointMiddleware(r) ==
  /\ Running(r, "endpointMiddlewares")
  /\ \E outcome \in MiddlewareOutcomes :
       Continue(r, resolveMiddlewares(reqs[r], "endpointMiddleware",
                                      app.endpoints[reqs[r].endpoint].middleware,
                                      outcome, "construct"))

\* the order of the statements of requestHandler after the endpoint's
\* middlewares, with the query validated before the auth handler is awaited
NextStep_queryBeforeAuth(step) ==
  CASE step = "construct" -> "queryValidate"
    [] step = "queryValidate" -> "auth"
    [] step = "auth" -> "parseBody"
    [] step = "parseBody" -> "bodyValidate"
    [] step = "bodyValidate" -> "handler"
    [] step = "handler" -> "respond"
    [] OTHER -> "done"
\* the order of the statements of requestHandler after the endpoint's
\* middlewares (part_002 243-306, Application.ts 167-215)
NextStep(step) ==
  CASE step = "construct" -> "auth"
    [] step = "auth" -> "queryValidate"
    [] step = "queryValidate" -> "parseBody"
    [] step = "parseBody" -> "bodyValidate"
    [] step = "bodyValidate" -> "handler"
    [] step = "handler" -> "respond"
    [] OTHER -> "done"

\* the run has completed step with the given outcome and goes on
Done(q, step, outcome, arg) ==
  [q EXCEPT !.pc = NextStep(step), !.log = Append(q.log, Event(step, outcome, arg))]

\* resolveArgs(target, providers, deps, optionalDeps): the value of every
\* dependency, or the Error for the first one that has no provider and no
\* default
resolveArgs(providers, deps, optionalDeps) ==
  LET missing == {i \in DOMAIN deps : deps[i] \notin providers /\ (i - 1) \notin optionalDeps}
  IN IF missing # {}
     THEN Throw(Error("Provider of param #"
                        \o ToString((CHOOSE i \in missing : \A j \in missing : i <= j) - 1)
                        \o " not found"))
     ELSE Return([i \in DOMAIN deps |->
                    IF deps[i] \in providers THEN deps[i] ELSE "defaultValue"])

\* resolveConstructorProvider keeping one instance per controller class: the
\* instance that the first request constructed
resolveConstructorProvider_singleton(constructor, providers, r) ==
  LET args == resolveArgs(providers, constructor.deps, constructor.optionalDeps)
  IN IF args.ok THEN Return([class |-> constructor.name, args |-> args.v, run |-> 1])
     ELSE args

\* resolveConstructorProvider(constructor, providers): new constructor(...args)
resolveConstructorProvider(constructor, providers, r) ==
  LET args == resolveArgs(providers, constructor.deps, constructor.optionalDeps)
  IN IF args.ok THEN Return([class |-> constructor.name, args |-> args.v, run |-> r])
     ELSE args

\* part_002 243-253: the endpoint's response handler replaces the default
\* one and the controller is built from the providers; Application.ts
\* 167-175 calls the controller's constructor without arguments
Construct(r) ==
  /\ Running(r, "construct")
  /\ LET q == reqs[r]
         ep == app.endpoints[q.endpoint]
         q1 == IF ep.responseHandler.set
               THEN [q EXCEPT !.responseHandler = ep.responseHandler.v] ELSE q
         controller ==
           IF app.file = "part_002"
           THEN resolveConstructorProvider(ep.controller,
                                           {"REQUEST", "RESPONSE"} \cup app.options.providers, r)
           ELSE Return([class |-> ep.controller.name, args |-> <<>>, run |-> r])
     IN Continue(r, IF controller.ok
                    THEN [Done(q1, "construct", controller, ep.controller.name)
                            EXCEPT !.controller = Some(controller.v)]
                    ELSE Failed(q1, "construct", controller.e, ep.controller.name))

\* what the endpoint's authHandler may do
AuthOutcomes == {Return(Str(<<"u">>)), Throw(HttpException(401, "Unauthorized", Nil))}

\* const auth = endpoint.authHandler ? await endpoint.authHandler(req, res) : null
Auth(r) ==
  /\ Running(r, "auth")
  /\ LET q == reqs[r]
         ep == app.endpoints[q.endpoint]
     IN IF ~ep.authHandler.set
        THEN Continue(r, [q EXCEPT !.pc = NextStep("auth"), !.auth = Some(Null)])
        ELSE \E outcome \in AuthOutcomes :
               Continue(r, IF outcome.ok
                           THEN [Done(q, "auth", outcome, ep.authHandler.v)
                                   EXCEPT !.auth = Some(outcome.v)]
                           ELSE Failed(q, "auth", outcome.e, ep.authHandler.v))

\* part_002 264-266, 283-285: catch (err) { throw new HttpException(400, undefined, err) }
BadRequest(v) == IF v.ok THEN v ELSE Throw(HttpException(400, "", v.e))

\* validate as the running version of the application calls it:
\* part_002 imports validator.ts, Application.ts imports Validator.ts
AppValidate(x, rule, propertyPath, isQuery) ==
  IF app.file = "part_002" THEN BadRequest(validate(x, rule, propertyPath, isQuery))
  ELSE Validator_validate(x, rule, propertyPath)

\* part_002 259-266, Application.ts 179-182
QueryValidate(r) ==
  /\ Running(r, "queryValidate")
  /\ LET q == reqs[r]
         ep == app.endpoints[q.endpoint]
         querystring == SplitUrl(q.req, IF app.file = "part_002" THEN 2 ELSE 1)[2]
     IN \E x \in {QsParse(querystring)}, rule \in {[Rule("object") EXCEPT !.schema = ep.query]} :
          \E query \in {AppValidate(x, rule, "query", TRUE)} :
            Continue(r, IF query.ok
                        THEN [Done(q, "queryValidate", query, querystring)
                                EXCEPT !.query = Some(query.v)]
                        ELSE Failed(q, "queryValidate", query.e, querystring))

\* let body = await parseBody(req, endpoint.bodyType || 'json', ...)
ParseBody(r) ==
  /\ Running(r, "parseBody")
  /\ LET q == reqs[r]
         ep == app.endpoints[q.endpoint]
         bodyType == IF ep.bodyType.set THEN ep.bodyType.v ELSE "json"
     IN \E body \in {parseBody(q.req, bodyType, Nil)} :
          Continue(r, IF body.ok
                      THEN [Done(q, "parseBody", body, bodyType) EXCEPT !.body = Some(body.v)]
                      ELSE Failed(q, "parseBody", body.e, bodyType))

\* const isQuery = endpoint.bodyType === 'multipart', the urlencoded bodies
\* being validated strictly
IsQuery_multipart(bodyType) == bodyType = Some("multipart")
\* const isQuery = endpoint.bodyType === 'multipart' || endpoint.bodyType === 'urlencoded'
IsQuery(bodyType) == bodyType \in {Some("multipart"), Some("urlencoded")}

\* part_002 270-286, Application.ts 186-195: the body is validated when
\* one was acquired, the endpoint does not take it as a stream and the
\* endpoint declares a body schema or a body rule
BodyValidate(r) ==
  /\ Running(r, "bodyValidate")
  /\ LET q == reqs[r]
         ep == app.endpoints[q.endpoint]
         body == q.body.v
         isQuery == IsQuery(ep.bodyType)
         rule == IF ep.body.set
                 THEN Some([Rule("object") EXCEPT
                              !.schema = ep.body,
                              !.parse = IF app.file = "part_002" THEN ep.bodyParser ELSE Nil])
                 ELSE ep.bodyRule
     IN IF body = Undefined \/ ep.bodyType = Some("stream") \/ ~rule.set
        THEN Continue(r, [q EXCEPT !.pc = NextStep("bodyValidate")])
        ELSE \E x \in {body}, bodyRule \in {rule.v} :
               \E v \in {AppValidate(x, bodyRule, "body", isQuery)} :
                 Continue(r, IF v.ok
                             THEN [Done(q, "bodyValidate", v, x) EXCEPT !.body = Some(v.v)]
                             ELSE Failed(q, "bodyValidate", v.e, x))

\* what the endpoint's handler may do
HandlerOutcomes == {Return(Str(<<"o", "k">>)), Throw(Error("handler"))}

\* endpoint.handler.call(controller, { method, auth, body, query, params,
\* headers, cookies }, controller), awaited when it returns a promise
Handler(r) ==
  /\ Running(r, "handler")
  /\ LET q == reqs[r]
         requestData == [method |-> q.req.method, auth |-> q.auth, body |-> q.body,
                         query |-> q.query, params |-> q.params,
                         headers |-> Headers(q.req), cookies |-> parseCookie(q.req),
                         controller |-> q.controller]
     IN \E outcome \in HandlerOutcomes :
          Continue(r, IF outcome.ok
                      THEN [Done(q, "handler", outcome, requestData)
                              EXCEPT !.responseBody = Some(outcome.v)]
                      ELSE Failed(q, "handler", outcome.e, requestData))

\* what a response handler may do
ResponseOutcomes == {Return(Undefined), Throw(Error("responseHandler"))}

\* await responseHandler(res, null, responseBody)
Respond(r) ==
  /\ Running(r, "respond")
  /\ LET q == reqs[r]
         args == [handler |-> q.responseHandler, err |-> Nil, body |-> q.responseBody]
     IN \E outcome \in ResponseOutcomes :
          Continue(r, IF outcome.ok THEN Done(q, "respond", outcome, args)
                      ELSE Failed(q, "respond", outcome.e, args))

\* .catch(err => this.responseHandler(res, err, undefined))
Catch(r) ==
  /\ Running(r, "catch")
  /\ LET q == reqs[r]
         args == [handler |-> app.responseHandler, err |-> q.err, body |-> Nil]
     IN Continue(r, [q EXCEPT !.pc = "done",
                              !.log = Append(q.log, Event("catch", Return(Undefined), args))])

(***************************************************************************)
(* The application: constructed from one of the option sets, then serving *)
(* up to MaxRequests requests whose runs interleave.                      *)
(***************************************************************************)
Init ==
  /\ call = NoCall
  /\ \E file \in Files, options \in Options :
       app = [status |-> "none", file |-> file, options |-> options, endpoints |-> <<>>,
              server |-> FALSE, responseHandler |-> "this.responseHandler", error |-> Nil]
  /\ reqs = <<>>

Next ==
  \/ Create
  \/ Listen
  \/ \E r \in 1..MaxRequests : Arrive(r)
  \/ \E r \in 1..MaxRequests : GlobalMiddleware(r)
  \/ \E r \in 1..MaxRequests : RouteMatch(r)
  \/ \E r \in 1..MaxRequests : EndpointMiddleware(r)
  \/ \E r \in 1..MaxRequests : Construct(r)
  \/ \E r \in 1..MaxRequests : Auth(r)
  \/ \E r \in 1..MaxRequests : QueryValidate(r)
  \/ \E r \in 1..MaxRequests : ParseBody(r)
  \/ \E r \in 1..MaxRequests : BodyValidate(r)
  \/ \E r \in 1..MaxRequests : Handler(r)
  \/ \E r \in 1..MaxRequests : Respond(r)
  \/ \E r \in 1..MaxRequests : Catch(r)

Spec == Init /\ [][Next]_vars

(***************************************************************************)
(* Properties of the application.                                         *)
(***************************************************************************)
\* the positions of the log of run q at which step was executed
EventsOf(q, step) == {k \in DOMAIN q.log : q.log[k].step = step}
\* step was executed by run q and completed without error
Completed(q, step) == \E k \in EventsOf(q, step) : q.log[k].outcome.ok
\* the steps that belong to one endpoint
EndpointSteps ==
  {"endpointMiddleware", "construct", "auth", "queryValidate", "parseBody", "bodyValidate",
   "handler", "respond"}

\* the endpoint's pattern matches the whole path and its method is the
\* request's, a GET endpoint also taking HEAD
Qualifies(ep, req) ==
  /\ Len(req.location) = Len(ep.location)
  /\ \A i \in DOMAIN ep.location :
       IF ep.location[i] = DigitsGroup THEN req.location[i] \in DigitSegments
       ELSE ep.location[i] = req.location[i]
  /\ (ep.method = req.method \/ (ep.method = "GET" /\ req.method = "HEAD"))

\* what C7 states of the route match of run q
RouteResolved(q) ==
  \A k \in EventsOf(q, "routeMatch") :
    LET qualifying == {i \in DOMAIN app.endpoints : Qualifies(app.endpoints[i], q.req)}
    IN IF qualifying # {}
       THEN /\ q.log[k].outcome = Return(CHOOSE i \in qualifying : \A j \in qualifying : i <= j)
            /\ q.endpoint = q.log[k].outcome.v
       ELSE /\ ~q.log[k].outcome.ok
            /\ q.log[k].outcome.e.name = "HttpException"
            /\ q.log[k].outcome.e.statusCode = 404
            /\ q.err = Some(q.log[k].outcome.e)
            /\ \A j \in DOMAIN q.log : q.log[j].step \notin EndpointSteps

\* C7: the route match selects the first endpoint, in registration order,
\* whose pattern matches the whole path and whose method is the request's
\* (GET endpoints also take HEAD); when there is none the request fails with
\* a 404 HttpException and nothing of any endpoint runs.  Stated for both
\* versions of the application.
C7_RouteResolution == \A r \in DOMAIN reqs : RouteResolved(reqs[r])

\* C7 for src/unnamed/part_002 alone
C7_RouteResolution_part_002 ==
  app.file = "part_002" => \A r \in DOMAIN reqs : RouteResolved(reqs[r])

\* C7, part_002: a GET request was routed to the second endpoint because the
\* first one, whose path matches too, is a POST endpoint
C7_Witness_part_002 ==
  /\ app.file = "part_002"
  /\ \E r \in DOMAIN reqs :
       /\ reqs[r].req.method = "GET"
       /\ reqs[r].endpoint = 2
       /\ Match(reqs[r].req.location, app.endpoints[1].location).set
       /\ app.endpoints[1].method = "POST"
       /\ Completed(reqs[r], "handler")

\* the endpoints the controllers of the options declare
DeclaredEndpoints ==
  Flat([i \in DOMAIN app.options.controllers |-> Controller(app.options.controllers[i])])
\* two of them have the same method and the same location
SameRoute(e1, e2) == e1.method = e2.method /\ e1.location = e2.location
DeclaresDuplicates ==
  \E i, j \in DOMAIN DeclaredEndpoints :
    i # j /\ SameRoute(DeclaredEndpoints[i], DeclaredEndpoints[j])

\* C8: when two loaded endpoints have the same method and location the
\* constructor throws before it creates the server, and no request is ever
\* served; in a constructed application no two endpoints of the route table
\* have the same method and location pattern.
C8_NoDuplicateRoutes ==
  /\ app.status = "none" => ~app.server /\ reqs = <<>>
  /\ (app.status # "none" /\ DeclaresDuplicates) =>
       /\ app.status = "failed"
       /\ app.error.set /\ app.error.v.name = "Error"
       /\ ~app.server
       /\ app.endpoints = <<>>
       /\ reqs = <<>>
  /\ app.status \in {"ready", "listening"} =>
       /\ app.server
       /\ app.endpoints = DeclaredEndpoints
       /\ \A i, j \in DOMAIN app.endpoints :
            i # j => ~SameRoute(app.endpoints[i], app.endpoints[j])

\* C8: a construction failed on two endpoints with the same route that are
\* not next to each other in the table
C8_Witness ==
  /\ app.status = "failed"
  /\ \E i, j \in DOMAIN DeclaredEndpoints :
       j > i + 1 /\ SameRoute(DeclaredEndpoints[i], DeclaredEndpoints[j])

\* the place of a step in the order C9 gives
Rank(step) ==
  CASE step = "globalMiddleware" -> 1
    [] step = "routeMatch" -> 2
    [] step = "endpointMiddleware" -> 3
    [] step = "construct" -> 4
    [] step = "auth" -> 5
    [] step = "queryValidate" -> 6
    [] step = "parseBody" -> 7
    [] step = "bodyValidate" -> 8
    [] step = "handler" -> 9
    [] step = "respond" -> 10
    [] OTHER -> 11
MiddlewareSteps == {"globalMiddleware", "endpointMiddleware"}

\* the steps of run q were executed in the order of their ranks, a step of
\* a middleware list once per middleware and every other step once, and
\* each only after all earlier ones completed without error
InOrder(q) ==
  \A j, k \in DOMAIN q.log :
    j < k =>
      /\ Rank(q.log[j].step) <= Rank(q.log[k].step)
      /\ Rank(q.log[j].step) = Rank(q.log[k].step) => q.log[j].step \in MiddlewareSteps
      /\ q.log[j].outcome.ok \/ q.log[k].step = "catch"

\* the body the run acquired has to be validated
BodyValidationDue(q) ==
  LET ep == app.endpoints[q.endpoint]
      acquired == q.log[CHOOSE k \in EventsOf(q, "parseBody") : TRUE].outcome.v
  IN /\ acquired # Undefined
     /\ ep.bodyType # Some("stream")
     /\ ep.body.set \/ ep.bodyRule.set

\* everything before the handler has run, and without error
ReadyForHandler(q) ==
  LET ep == app.endpoints[q.endpoint]
  IN /\ Cardinality(EventsOf(q, "globalMiddleware")) = Len(app.options.middlewares)
     /\ Completed(q, "routeMatch")
     /\ Cardinality(EventsOf(q, "endpointMiddleware")) = Len(ep.middleware)
     /\ Completed(q, "construct")
     /\ ep.authHandler.set => Completed(q, "auth")
     /\ Completed(q, "queryValidate")
     /\ Completed(q, "parseBody")
     /\ BodyValidationDue(q) => Completed(q, "bodyValidate")
     /\ \A k \in DOMAIN q.log : q.log[k].step # "handler" => q.log[k].outcome.ok

\* C9: in src/unnamed/part_002 the steps of one request happen in the order
\* global middlewares, route match, endpoint middlewares, controller
\* construction, auth hook, query validation, body acquisition, body
\* validation, handler, response emission, each only after the earlier ones
\* succeeded; the handler is invoked only after all of them have.
C9_StepOrder ==
  app.file = "part_002" =>
    \A r \in DOMAIN reqs :
      /\ InOrder(reqs[r])
      /\ EventsOf(reqs[r], "handler") # {} =>
           LET q == reqs[r]
               at == CHOOSE k \in EventsOf(q, "handler") : TRUE
           IN ReadyForHandler([q EXCEPT !.log = SubSeq(q.log, 1, at)])

\* C9: one request went through its middlewares, the auth hook and the
\* handler to its response, another through body validation, handler and
\* response
C9_Witness ==
  /\ app.file = "part_002"
  /\ \E r1, r2 \in DOMAIN reqs :
       /\ Completed(reqs[r1], "endpointMiddleware")
       /\ Completed(reqs[r1], "auth")
       /\ Completed(reqs[r1], "respond")
       /\ Completed(reqs[r2], "bodyValidate")
       /\ Completed(reqs[r2], "respond")

\* the names of the middlewares run q has called at the given step
Called_middlewares(q, step) ==
  LET events == SelectSeq(q.log, LAMBDA e : e.step = step)
  IN [k \in DOMAIN events |-> events[k].arg]
IsPrefix(s, t) == Len(s) <= Len(t) /\ s = SubSeq(t, 1, Len(s))

\* C10: the middlewares of a list are called in list order; once a global
\* or endpoint middleware has returned a truthy value nothing else happens
\* in that request: that call is the last entry of its log, the run has
\* returned, and no error was raised or handed to a response handler.
C10_TruthyMiddlewareHalts ==
  app.file = "part_002" =>
    \A r \in DOMAIN reqs :
      LET q == reqs[r]
      IN /\ IsPrefix(Called_middlewares(q, "globalMiddleware"), app.options.middlewares)
         /\ q.endpoint # 0 =>
              IsPrefix(Called_middlewares(q, "endpointMiddleware"),
                       app.endpoints[q.endpoint].middleware)
         /\ \A k \in DOMAIN q.log :
              (/\ q.log[k].step \in MiddlewareSteps
               /\ q.log[k].outcome.ok
               /\ Truthy(q.log[k].outcome.v)) =>
                /\ k = Len(q.log)
                /\ q.pc = "halted"
                /\ ~q.err.set
                /\ ~q.controller.set /\ ~q.auth.set /\ ~q.query.set /\ ~q.body.set
                /\ ~q.responseBody.set

\* C10: a run was halted by the second middleware of an endpoint, which
\* returned a truthy value that is not true, after the first returned false
C10_Witness ==
  /\ app.file = "part_002"
  /\ \E r \in DOMAIN reqs :
       LET q == reqs[r]
       IN /\ q.pc = "halted"
          /\ Len(q.log) >= 2
          /\ q.log[Len(q.log)] = Event("endpointMiddleware", Return(Str(S_a)), "e2")
          /\ q.log[Len(q.log) - 1] = Event("endpointMiddleware", Return(Bool(FALSE)), "e1")

\* what C11 states of the validation step of run q whose paths start at root
RejectedAsBadRequest(q, step, root) ==
  \A k \in EventsOf(q, step) :
    ~q.log[k].outcome.ok =>
      LET e == q.log[k].outcome.e
      IN /\ e.name = "HttpException"
         /\ e.statusCode = 400
         /\ e.details.name = "ValidationError"
         /\ StartsWith(e.details.propertyPath, root)
         /\ q.err = Some(e)
         /\ EventsOf(q, "handler") = {}
\* the request POST /users with the JSON body {"name": ""}
EmptyNameRequest == JsonRequest("POST", <<"users">>, Obj(<<[k |-> "name", v |-> Str(S_empty)]>>))
\* its body validation against {name: {type: 'string', min: 1}} fails at body.name
EmptyNameRejected(q) ==
  (q.req = EmptyNameRequest /\ EventsOf(q, "bodyValidate") # {}) =>
    \A k \in EventsOf(q, "bodyValidate") :
      /\ ~q.log[k].outcome.ok
      /\ q.log[k].outcome.e.name = "HttpException"
      /\ q.log[k].outcome.e.details.propertyPath = "body.name"
BadRequest400(q) ==
  /\ RejectedAsBadRequest(q, "queryValidate", "query")
  /\ RejectedAsBadRequest(q, "bodyValidate", "body")
  /\ EmptyNameRejected(q)

\* C11: a failed query or body validation fails the request with an
\* HttpException of status 400 whose details are the ValidationError, with a
\* propertyPath under 'query' or 'body' (body.name for the body {"name": ""}
\* against {name: {type: 'string', min: 1}}), and the handler is not invoked.
\* Stated for both versions of the application.
C11_ValidationIsBadRequest == \A r \in DOMAIN reqs : BadRequest400(reqs[r])

\* C11 for src/unnamed/part_002 alone
C11_ValidationIsBadRequest_part_002 ==
  app.file = "part_002" => \A r \in DOMAIN reqs : BadRequest400(reqs[r])

\* C11, part_002: the body {"name": ""} was rejected at body.name and a
\* query was rejected under query, each handed to the response handler
C11_Witness_part_002 ==
  /\ app.file = "part_002"
  /\ \E r1, r2 \in DOMAIN reqs :
       /\ reqs[r1].req = EmptyNameRequest
       /\ reqs[r1].pc = "done"
       /\ reqs[r1].err.set
       /\ reqs[r1].err.v.name = "HttpException"
       /\ reqs[r1].err.v.details.name = "ValidationError"
       /\ reqs[r1].err.v.details.propertyPath = "body.name"
       /\ EventsOf(reqs[r2], "queryValidate") # {}
       /\ ~Completed(reqs[r2], "queryValidate")
       /\ reqs[r2].pc = "done"

\* the calls of a response handler in run q
ResponseInvocations(q) == EventsOf(q, "respond") \cup EventsOf(q, "catch")
\* the step of run q that raised: one of the steps before the response
RaisedBeforeResponse(q) ==
  \E k \in DOMAIN q.log : ~q.log[k].outcome.ok /\ q.log[k].step \notin {"respond", "catch"}

\* what C12 states of run q: q.responseHandler is the handler the run has
\* resolved, the endpoint's override once the run has adopted it
RespondsOnce(q) ==
  /\ Cardinality(ResponseInvocations(q)) <= 1
  /\ q.pc = "done" => Cardinality(ResponseInvocations(q)) = 1
  /\ \A k \in EventsOf(q, "respond") :
       /\ q.log[k].arg = [handler |-> q.responseHandler, err |-> Nil, body |-> q.responseBody]
       /\ ~RaisedBeforeResponse(q)
  /\ \A k \in EventsOf(q, "catch") :
       /\ q.log[k].arg = [handler |-> q.responseHandler, err |-> q.err, body |-> Nil]
       /\ q.err.set
       /\ RaisedBeforeResponse(q)

\* C12: in src/unnamed/part_002 a request that no middleware halted has
\* exactly one response handler call: the resolved handler with (res, null,
\* result) when every step before succeeded, and with (res, error,
\* undefined) when one of them raised; never a success call and an error
\* call for the same request.
C12_OneResponse ==
  app.file = "part_002" => \A r \in DOMAIN reqs : RespondsOnce(reqs[r])

\* the body that run q acquired
Acquired(q) == q.log[CHOOSE k \in EventsOf(q, "parseBody") : TRUE].outcome.v
\* the endpoint of run q takes its body as multipart or urlencoded
Lenient(ep) == ep.bodyType.set /\ ep.bodyType.v \in {"multipart", "urlencoded"}
\* what validating the acquired body of run q in the given mode gives: as
\* an object against the body schema, else against the body rule
BodyExpected(q, lenient) ==
  LET ep == app.endpoints[q.endpoint]
  IN IF ep.body.set
     THEN validate(Acquired(q), [Rule("object") EXCEPT !.schema = ep.body,
                                                        !.parse = ep.bodyParser],
                   "body", lenient)
     ELSE validate(Acquired(q), ep.bodyRule.v, "body", lenient)
\* what C13 states of a run that is past its body validation step
BodyValidated(q) ==
  LET ep == app.endpoints[q.endpoint]
      events == EventsOf(q, "bodyValidate")
  IN /\ Cardinality(events) <= 1
     /\ events # {} <=> /\ Acquired(q) # Undefined
                        /\ ep.bodyType # Some("stream")
                        /\ ep.body.set \/ ep.bodyRule.set
     /\ \A k \in events :
          \E expected \in {BodyExpected(q, Lenient(ep))} :
            /\ q.log[k].arg = Acquired(q)
            /\ IF expected.ok THEN q.log[k].outcome = expected ELSE ~q.log[k].outcome.ok
     /\ \A h \in EventsOf(q, "handler") :
          q.log[h].arg.body = Some(IF events = {} THEN Acquired(q)
                                   ELSE q.log[CHOOSE k \in events : TRUE].outcome.v)

\* C13: in src/unnamed/part_002 the body of a request is validated only when
\* one was acquired and the endpoint does not take it as a stream; the
\* validation is lenient exactly for multipart and urlencoded endpoints, is
\* made against the body schema as an object when the endpoint declares
\* one, else against its body rule when it declares one, and without either
\* the handler receives the acquired body as it is.
C13_BodyValidation ==
  app.file = "part_002" =>
    \A r \in DOMAIN reqs :
      Completed(reqs[r], "parseBody") /\ reqs[r].pc # "bodyValidate" => BodyValidated(reqs[r])
\* C13 witness: one handler has received an urlencoded body that only the
\* lenient mode accepts, and another the stream of an endpoint that
\* declares a body schema
C13_Witness ==
  /\ app.file = "part_002"
  /\ \E r1, r2 \in DOMAIN reqs :
       /\ Completed(reqs[r1], "bodyValidate") /\ EventsOf(reqs[r1], "handler") # {}
       /\ app.endpoints[reqs[r1].endpoint].bodyType = Some("urlencoded")
       /\ ~BodyExpected(reqs[r1], FALSE).ok
       /\ \E h \in EventsOf(reqs[r2], "handler") : reqs[r2].log[h].arg.body = Some(Stream)
       /\ app.endpoints[reqs[r2].endpoint].bodyType = Some("stream")
       /\ app.endpoints[reqs[r2].endpoint].body.set

(***************************************************************************)
(* parseBody of src/src/utils.ts called once, for any request, body type  *)
(* and limit.                                                              *)
(***************************************************************************)
MaxBytes == 2

ContentTypes ==
  {Nil, Some(""), Some("json"), Some("application/json"),
   Some("application/x-www-form-urlencoded"), Some("multipart/form-data"), Some("text/plain")}
BodyRequests ==
  {[BaseRequest EXCEPT !.method = method, !.contentType = contentType, !.charset = charset,
                       !.length = length, !.received = received, !.encodingSet = encodingSet,
                       !.ending = ending, !.text = S_a, !.parsed = parsed] :
     method \in {"GET", "POST"}, contentType \in ContentTypes,
     charset \in {Nil, Some("utf-8"), Some("latin1")},
     length \in {Nil} \cup {Some(n) : n \in 1..MaxBytes}, received \in 0..MaxBytes,
     encodingSet \in BOOLEAN, ending \in {"end", "aborted", "error"},
     parsed \in {Return(Obj(<<>>)), Throw(SyntaxError)}}
BodyTypeNames == {"json", "urlencoded", "multipart", "stream", "text", "raw"}

InitParseBody ==
  /\ \E req \in BodyRequests, bodyType \in BodyTypeNames, limit \in {Nil, Some(1)} :
       call = [file |-> "pending", req |-> req, bodyType |-> bodyType, limit |-> limit,
               result |-> NotRun]
  /\ app = NoApp
  /\ reqs = <<>>

\* await parseBody(req, bodyType, parsers, options)
CallParseBody ==
  /\ call.file = "pending"
  /\ \E result \in {parseBody(call.req, call.bodyType, call.limit)} :
       call' = [call EXCEPT !.file = "utils.ts", !.result = result]
  /\ UNCHANGED <<app, reqs>>

NextParseBody == CallParseBody

SpecParseBody == InitParseBody /\ [][NextParseBody]_vars

\* the call of parseBody has failed
AcquisitionFailed == call.file = "utils.ts" /\ ~call.result.ok
\* the error is an HttpException with one of the status codes of body
\* acquisition
IsAcquisitionException(e) ==
  e.name = "HttpException" /\ e.statusCode \in {400, 413, 415, 500}
\* the error of a failed call as it was first raised: by the parse of the
\* Content-Type header or by checking, reading or parsing the body
FirstRaised ==
  LET header == ContentTypeParse(call.req)
  IN IF ~call.req.contentType.set \/ call.req.contentType = Some("") THEN IncorrectContentType
     ELSE IF ~header.ok THEN header.e
     ELSE parseBodyType(call.req, call.bodyType, header.v.type,
                        IF call.req.charset.set THEN call.req.charset ELSE Some("utf-8"),
                        call.limit).e
\* what C14 states of a failed call
KeptOrWrapped ==
  /\ IsAcquisitionException(call.result.e)
  /\ call.result.e = IF FirstRaised.name = "HttpException" THEN FirstRaised
                     ELSE HttpException(400, "Bad Request", FirstRaised)

\* C14: every failure of parseBody is an HttpException: an HttpException
\* raised while checking, reading or parsing the body is passed on with its
\* status code (400, 413, 415 or 500), and every other error, that of a
\* malformed Content-Type header and that of malformed JSON included, is
\* wrapped as HttpException 400 with the error as its details.
C14_AcquisitionFailure == AcquisitionFailed => KeptOrWrapped
\* C14 for the requests whose Content-Type header has the form of a media
\* type: every failure of parseBody is an HttpException kept or wrapped as
\* the claim says.
C14_AcquisitionFailure_parsedHeader ==
  AcquisitionFailed /\ (call.req.contentType.set => ContentTypeParse(call.req).ok)
    => KeptOrWrapped
\* C14 witness: the SyntaxError of a malformed JSON body has been wrapped
C14_Witness_parsedHeader ==
  /\ AcquisitionFailed
  /\ call.bodyType = "json"
  /\ call.result.e = HttpException(400, "Bad Request", SyntaxError)

\* a controller of the options declares a dependency that is neither
\* REQUEST or RESPONSE nor provided, and for which it has no default
MissingDependency(options) ==
  \E c \in DOMAIN options.controllers :
    \E i \in DOMAIN options.controllers[c].deps :
      /\ options.controllers[c].deps[i] \notin {"REQUEST", "RESPONSE"} \cup options.providers
      /\ (i - 1) \notin options.controllers[c].optionalDeps
\* the construction of a controller has failed inside the run of a request
DependencyRaisedInRequest ==
  \E r \in DOMAIN reqs : \E k \in EventsOf(reqs[r], "construct") : ~reqs[r].log[k].outcome.ok

\* C15: in src/unnamed/part_002 an application whose controllers have a
\* dependency without provider and without default is never constructed,
\* and no request's pipeline raises the error of a missing provider.
C15_MissingProviderFailsConstruction ==
  app.file = "part_002" =>
    /\ MissingDependency(app.options) => app.status \in {"none", "failed"}
    /\ ~DependencyRaisedInRequest

\* the value that step returned in run q, or the value given when the run
\* has no event of that step
ReturnedBy(q, step, otherwise) ==
  IF EventsOf(q, step) = {} THEN otherwise
  ELSE q.log[CHOOSE k \in EventsOf(q, step) : TRUE].outcome.v
\* what the handler of run number r is to be invoked with: everything is
\* computed from the run's own request and from what its own steps returned
OwnRequestData(r) ==
  LET q == reqs[r]
      ep == app.endpoints[q.endpoint]
      url == SplitUrl(q.req, 2)
  IN [method |-> q.req.method,
      auth |-> Some(ReturnedBy(q, "auth", Null)),
      body |-> Some(ReturnedBy(q, "bodyValidate",
                               parseBody(q.req, IF ep.bodyType.set THEN ep.bodyType.v ELSE "json",
                                         Nil).v)),
      query |-> Some(validate(QsParse(url[2]), [Rule("object") EXCEPT !.schema = ep.query],
                              "query", TRUE).v),
      params |-> Match(url[1], ep.location).v,
      headers |-> Headers(q.req),
      cookies |-> parseCookie(q.req),
      controller |-> Some(ReturnedBy(q, "construct", Null))]

\* C16: in src/unnamed/part_002, however the runs of the requests in flight
\* interleave, every handler is invoked with the method, auth, query, body,
\* params, headers and cookies of its own request and on the controller
\* instance that was constructed in its own run.
C16_RequestIsolation ==
  app.file = "part_002" =>
    \A r \in DOMAIN reqs :
      \A h \in EventsOf(reqs[r], "handler") :
        \E expected \in {OwnRequestData(r)} :
          /\ reqs[r].log[h].arg = expected
          /\ expected.controller.v.run = r
\* C16 witness: two different requests are in flight together, both after
\* their handler and before their response, with different query, cookies
\* and controller instance
C16_Witness ==
  /\ app.file = "part_002"
  /\ Len(reqs) = 2
  /\ reqs[1].pc = "respond" /\ reqs[2].pc = "respond"
  /\ \E h1 \in EventsOf(reqs[1], "handler"), h2 \in EventsOf(reqs[2], "handler") :
       LET a1 == reqs[1].log[h1].arg
           a2 == reqs[2].log[h2].arg
       IN /\ a1.query # a2.query
          /\ a1.cookies # a2.cookies
          /\ a1.body # a2.body
          /\ a1.controller # a2.controller

\* the error is a ValidationError that carries a path below the call's
\* path, a value and a rule
IsValidationError(e) ==
  /\ e.name = "ValidationError"
  /\ StartsWith(e.propertyPath, call.propertyPath)
  /\ DOMAIN e = {"name", "propertyPath", "value", "rule"}

\* C17: whatever the rule and the input, a call of validate that fails
\* raises a ValidationError carrying path, value and rule, or, when the rule
\* is null or undefined, the TypeError.
C17_OnlyValidationErrors ==
  Called /\ ~call.result.ok =>
    \/ IsValidationError(call.result.e)
    \/ call.result.e = TypeError /\ call.rule = NullRule
\* C17 for the rules other than bigint: a call that fails raises a
\* ValidationError or the TypeError of the null rule.
C17_OnlyValidationErrors_notBigint ==
  Called /\ ~call.result.ok /\ call.rule.type # "bigint" =>
    \/ IsValidationError(call.result.e)
    \/ call.result.e = TypeError /\ call.rule = NullRule
\* C17 witness: an element of an array has been rejected by the nested rule
C17_Witness_notBigint ==
  /\ Called /\ ~call.result.ok
  /\ call.rule.type = "array"
  /\ IsValidationError(call.result.e)
  /\ call.result.e.propertyPath # call.propertyPath

\* the rule and the rules nested in it are single rules
RECURSIVE OnlySingleRules(_)
OnlySingleRules(rule) ==
  /\ IsSingleRule(rule)
  /\ rule.nested.set => OnlySingleRules(rule.nested.v)
  /\ rule.schema.set => \A i \in DOMAIN rule.schema.v : OnlySingleRules(rule.schema.v[i].rule)
\* the values inside x that the array or object rule validates, each with
\* its path below propertyPath and with the rule that applies to it
RECURSIVE Positions(_, _, _)
Positions(x, rule, propertyPath) ==
  {[propertyPath |-> propertyPath, value |-> x, rule |-> rule]} \cup
  (CASE rule.type = "array" /\ x.t = "array" /\ rule.nested.set ->
          UNION {Positions(x.a[i], rule.nested.v, propertyPath \o "[" \o ToString(i - 1) \o "]") :
                   i \in DOMAIN x.a}
     [] rule.type = "object" /\ x.t \in {"array", "object"} /\ rule.schema.set ->
          UNION {Positions(Get(x, rule.schema.v[i].k), rule.schema.v[i].rule,
                           propertyPath \o "." \o rule.schema.v[i].k) :
                   i \in DOMAIN rule.schema.v}
     [] rule.type = "object" /\ x.t \in {"array", "object"} /\ rule.nested.set ->
          UNION {Positions(Get(x, Keys(x)[i]), rule.nested.v,
                           propertyPath \o "." \o Keys(x)[i]) : i \in DOMAIN Keys(x)}
     [] OTHER -> {})
\* a call of validate of src/src/validator.ts with an array or object rule
\* built from single rules has failed
NestedCallFailed ==
  /\ call.file = "validator.ts" /\ ~call.result.ok
  /\ call.rule.type \in {"array", "object"}
  /\ OnlySingleRules(call.rule)
\* the error names one of the positions: its path, its raw value, its rule
NamesPosition(e, exempt) ==
  \E pos \in Positions(call.x, call.rule, call.propertyPath) :
    /\ e.propertyPath = pos.propertyPath
    /\ e.rule = pos.rule
    /\ e.value = pos.value \/ (exempt /\ pos.rule.type = "string" /\ pos.value.t = "number")
    /\ ~validate(pos.value, pos.rule, pos.propertyPath, call.isQuery).ok

\* C18: when validate of src/src/validator.ts fails for an array or object
\* rule built from single rules, the ValidationError names the failing
\* value inside the input: its propertyPath is the call's path followed by
\* .field for every object level and [i] for every array level, i being the
\* index in the input array, its value is the value found there and its
\* rule is the rule that applies there.
C18_InnermostFailure == NestedCallFailed => NamesPosition(call.result.e, FALSE)
\* C18 apart from the value reported for a number that a string rule
\* rejects: path and rule are those of the failing position, and so is the
\* value everywhere else.
C18_InnermostFailure_pathAndRule == NestedCallFailed => NamesPosition(call.result.e, TRUE)
\* C18 witness: the third element of the array in field items was rejected
C18_Witness_pathAndRule ==
  /\ NestedCallFailed
  /\ call.propertyPath = "body"
  /\ call.result.e = ValidationError("body.items[2]", Str(S_ab), R_num)

(***************************************************************************)
(* validate called on a string rule and then once more, with its own      *)
(* result and the same rule.                                               *)
(***************************************************************************)
RoundTripInputs ==
  {Undefined, Int2Num(1), Num(Scale + Scale \div 2)} \cup
  {Str(str) : str \in {S_empty, S_a, S_ab, <<" ">>, <<" ", "a">>, <<"a", " ">>,
                       <<"u0001", " ", "a">>, <<"a", "\t", " ", "b">>, <<"a", "u0001", "b">>}}
RoundTripRules ==
  {[Rule("string") EXCEPT !.trim = t, !.escape = e, !.min = mn, !.max = mx, !.length = l,
                          !.optional = o, !.default = d] :
     t \in BOOLEAN, e \in {Nil, Some(0), Some(1), Some(2)}, mn \in {Nil, Some(1), Some(2)},
     mx \in {Nil, Some(2)}, l \in {Nil, Some(1)}, o \in BOOLEAN,
     d \in {Nil, DefaultLit(Str(S_a))}}

InitRoundTrip ==
  /\ \E x \in RoundTripInputs, rule \in RoundTripRules, isQuery \in BOOLEAN :
       call = [file |-> "pending", x |-> x, rule |-> rule, propertyPath |-> "this",
               isQuery |-> isQuery, result |-> NotRun, again |-> NotRun]
  /\ app = NoApp
  /\ reqs = <<>>

\* validate(result, rule) by the validator that gave the result
Revalidate ==
  /\ call.file \in {"validator.ts", "Validator.ts"}
  /\ call.result.ok
  /\ call.again = NotRun
  /\ \E again \in {IF call.file = "validator.ts"
                    THEN validate(call.result.v, call.rule, call.propertyPath, call.isQuery)
                    ELSE Validator_validate(call.result.v, call.rule, call.propertyPath)} :
       call' = [call EXCEPT !.again = again]
  /\ UNCHANGED <<app, reqs>>

NextRoundTrip == Validate \/ ValidatorValidate \/ Revalidate

SpecRoundTrip == InitRoundTrip /\ [][NextRoundTrip]_vars

\* the accepted input has been validated twice
Revalidated == call.file # "pending" /\ call.again # NotRun

\* C19: for a string rule without custom and parse and an input the rule
\* accepts, validating the result once more with the same rule succeeds
\* and returns the same string, whatever trim, escape, length, min and max
\* the rule has.
C19_StringRoundTrip == Revalidated => call.again = call.result
\* C19 for src/src/validator.ts and the rules that do not both trim and
\* escape: the second validation returns the result of the first.
C19_StringRoundTrip_validator_ts ==
  Revalidated /\ call.file = "validator.ts" /\ ~(call.rule.trim /\ call.rule.escape.set)
    => call.again = call.result
\* C19 witness: an escaped string that lost a run of spaces was validated
\* twice
C19_Witness_validator_ts ==
  /\ Revalidated /\ call.file = "validator.ts"
  /\ ~call.rule.trim /\ call.rule.escape.set /\ call.rule.min = Some(2)
  /\ call.x = Str(<<"a", "\t", " ", "b">>)
  /\ call.again = Return(Str(<<"a", " ", "b">>))

\* [1, 2, 'ab'], whose last element is not a number
OneTwoBad == Arr(<<Int2Num(1), Int2Num(2), Str(S_ab)>>)
\* validate of src/src/validator.ts has been called with [1, 2, 'ab'] and an
\* array rule without default whose nested rule is a single number rule
BadElementCall ==
  /\ call.file = "validator.ts"
  /\ call.x = OneTwoBad
  /\ call.rule.type = "array" /\ ~call.rule.default.set
  /\ call.rule.nested.set /\ call.rule.nested.v.type = "number"
\* the nested rule declares optional or a default
Tolerant(rule) == rule.optional \/ HasDefault(rule)

\* C20: for [1, 2, 'ab'] and an array rule whose nested rule is a number
\* rule, validate of src/src/validator.ts returns [1, 2] when the nested
\* rule declares optional or a default, and raises a ValidationError when it
\* declares neither.
C20_BadElement ==
  BadElementCall =>
    IF Tolerant(call.rule.nested.v)
    THEN call.result = Return(Arr(<<Int2Num(1), Int2Num(2)>>))
    ELSE ~call.result.ok /\ IsValidationError(call.result.e)
\* C20 as src/src/validator.ts behaves: the element that is not a number
\* makes the whole array fail with the element's ValidationError, whether
\* or not the nested rule declares optional or a default.
C20_BadElement_validator_ts ==
  BadElementCall =>
    call.result = Throw(ValidationError(call.propertyPath \o "[2]", Str(S_ab),
                                        call.rule.nested.v))
\* C20 witness: the array was rejected under a nested rule that is optional
C20_Witness_validator_ts ==
  /\ BadElementCall
  /\ call.rule.nested.v.optional
  /\ ~call.result.ok

\* the path with its letters in lower case
Lowered(path) == [i \in DOMAIN path |-> ToLowerCase(path[i])]
\* the endpoints that take the request when letter case is ignored
QualifiesIgnoringCase(req) ==
  {i \in DOMAIN app.endpoints :
     Qualifies(app.endpoints[i], [req EXCEPT !.location = Lowered(req.location)])}
\* the path of the request of run q is a proper prefix of the location of
\* endpoint i, or the location a proper prefix of the path
PrefixOnly(q, i) ==
  LET location == app.endpoints[i].location
      path == q.req.location
  IN /\ Len(path) # Len(location)
     /\ \A k \in 1..(IF Len(path) < Len(location) THEN Len(path) ELSE Len(location)) :
          SegmentMatches(location[k], path[k])

\* C21: in src/unnamed/part_002 the route match ignores letter case and
\* matches whole paths only: a request whose path is that of an endpoint up
\* to letter case is routed to the first such endpoint, and no request is
\* routed to an endpoint whose location is only a prefix of its path or
\* has its path as a prefix.
C21_CaseInsensitiveFullMatch ==
  app.file = "part_002" =>
    \A r \in DOMAIN reqs :
      \A k \in EventsOf(reqs[r], "routeMatch") :
        /\ QualifiesIgnoringCase(reqs[r].req) # {} =>
             reqs[r].log[k].outcome = Return(First(QualifiesIgnoringCase(reqs[r].req)))
        /\ reqs[r].log[k].outcome.ok => ~PrefixOnly(reqs[r], reqs[r].log[k].outcome.v)
\* C21 without the letter case: in src/unnamed/part_002 no request is routed
\* to an endpoint whose location is only a prefix of its path or has its
\* path as a prefix.
C21_CaseInsensitiveFullMatch_fullMatch ==
  app.file = "part_002" =>
    \A r \in DOMAIN reqs :
      \A k \in EventsOf(reqs[r], "routeMatch") :
        reqs[r].log[k].outcome.ok => ~PrefixOnly(reqs[r], reqs[r].log[k].outcome.v)
\* C21 witness: a request for /users/echo was routed past the endpoint whose
\* location /users is a prefix of its path
C21_Witness_fullMatch ==
  /\ app.file = "part_002"
  /\ \E r \in DOMAIN reqs :
       /\ Completed(reqs[r], "routeMatch")
       /\ reqs[r].req.location = <<"users", "echo">>
       /\ PrefixOnly(reqs[r], 1)
       /\ reqs[r].endpoint = 2

\* validate has been called with an array and an array rule whose nested
\* rule is a single rule, and has returned; the rule has no default and no
\* parse, so what it returned is the output of the array routine
ArrayCallReturned ==
  /\ Called /\ call.result.ok
  /\ call.x.t = "array"
  /\ call.rule.type = "array" /\ ~call.rule.default.set /\ ~call.rule.parse.set
  /\ call.rule.nested.set /\ IsSingleRule(call.rule.nested.v)
\* what validating the elements of the call's array one by one gives, by
\* the validator that ran
ElementValues ==
  [i \in DOMAIN call.x.a |->
     (IF call.file = "validator.ts"
      THEN validate(call.x.a[i], call.rule.nested.v, "e", call.isQuery)
      ELSE Validator_validate(call.x.a[i], call.rule.nested.v, "e")).v]

\* C22: for an array rule with a single nested rule the output is the
\* validated elements in input order without those that validated to
\* undefined, and with every other one, 0, false and '' included.
C22_DropsOnlyUndefined ==
  ArrayCallReturned =>
    call.result.v = Arr(SelectSeq(ElementValues, LAMBDA v : v # Undefined))
\* C22 as src/src/validator.ts behaves: the output is the validated
\* elements in input order without those that are falsy.
C22_DropsOnlyUndefined_validator_ts ==
  ArrayCallReturned /\ call.file = "validator.ts" =>
    call.result.v = Arr(SelectSeq(ElementValues, Truthy))
\* C22 witness: src/src/validator.ts has dropped an element that validated
\* to undefined and kept the number after it
C22_Witness_validator_ts ==
  /\ ArrayCallReturned /\ call.file = "validator.ts"
  /\ call.x = Arr(<<Undefined, Int2Num(1)>>)
  /\ call.result.v = Arr(<<Int2Num(1)>>)

\* validate has been called with an array and an array rule without default
\* and parse whose nested rule, when it has one, is a single rule that
\* accepts every element
ArrayCallElementsValid ==
  /\ Called
  /\ call.x.t = "array"
  /\ call.rule.type = "array" /\ ~call.rule.default.set /\ ~call.rule.parse.set
  /\ call.rule.nested.set =>
       /\ IsSingleRule(call.rule.nested.v)
       /\ \A i \in DOMAIN call.x.a :
            (IF call.file = "validator.ts"
             THEN validate(call.x.a[i], call.rule.nested.v, "e", call.isQuery)
             ELSE Validator_validate(call.x.a[i], call.rule.nested.v, "e")).ok
\* the output the array routine of the validator that ran builds
FinalOutput ==
  IF ~call.rule.nested.set THEN call.x.a
  ELSE IF call.file = "validator.ts" THEN SelectSeq(ElementValues, Truthy)
  ELSE ElementValues
\* an array of n elements meets the rule's length, min and max
LengthOk(rule, n) ==
  /\ rule.length.set => rule.length.v = n
  /\ rule.min.set => n >= rule.min.v
  /\ rule.max.set => n <= rule.max.v

\* C23: the length, min and max of an array rule are enforced on the output
\* array, after the nested validation and the dropping of elements: when
\* every element validates, the call succeeds exactly when the output's
\* length meets them.
C23_LengthOfOutput ==
  ArrayCallElementsValid => (call.result.ok <=> LengthOk(call.rule, Len(FinalOutput)))
\* C23 for src/src/Validator.ts alone
C23_LengthOfOutput_Validator_ts ==
  ArrayCallElementsValid /\ call.file = "Validator.ts" =>
    (call.result.ok <=> LengthOk(call.rule, Len(FinalOutput)))
\* C23 witness: src/src/Validator.ts has rejected an array of one valid
\* element for the minimum length of two
C23_Witness_Validator_ts ==
  /\ ArrayCallElementsValid /\ call.file = "Validator.ts"
  /\ call.rule.nested.set /\ call.rule.min = Some(2)
  /\ call.x = Arr(<<Int2Num(1)>>)
  /\ call.result = Throw(ValidationError(call.propertyPath, call.x, call.rule))

\* validate has been called with an array and an array rule, without
\* default and parse, whose nested is an ordered list of rules
TupleCall ==
  /\ Called
  /\ call.x.t = "array"
  /\ call.rule.type = "array" /\ ~call.rule.default.set /\ ~call.rule.parse.set
  /\ call.rule.nested.set /\ IsArrayRule(call.rule.nested.v)
\* element i of the input validated against rule i of the list alone, by
\* the validator that ran
Positional(i) ==
  IF call.file = "validator.ts"
  THEN validate(call.x.a[i], call.rule.nested.v.rules[i], "e", call.isQuery)
  ELSE Validator_validate(call.x.a[i], call.rule.nested.v.rules[i], "e")

\* C24: when nested is an ordered list of rules, an input with another
\* number of elements than the list fails, and an input with that number of
\* elements validates exactly when every element i validates against rule i
\* of the list (and the array meets the rule's length, min and max).
C24_PositionalNested ==
  TupleCall =>
    IF Len(call.x.a) # Len(call.rule.nested.v.rules) THEN ~call.result.ok
    ELSE call.result.ok <=>
           /\ \A i \in DOMAIN call.x.a : Positional(i).ok
           /\ LengthOk(call.rule, Len(call.x.a))
\* C24 for src/src/Validator.ts alone, with the output it returns
C24_PositionalNested_Validator_ts ==
  TupleCall /\ call.file = "Validator.ts" =>
    IF Len(call.x.a) # Len(call.rule.nested.v.rules) THEN ~call.result.ok
    ELSE IF (\A i \in DOMAIN call.x.a : Positional(i).ok) /\ LengthOk(call.rule, Len(call.x.a))
         THEN call.result = Return(Arr([i \in DOMAIN call.x.a |-> Positional(i).v]))
         ELSE ~call.result.ok
\* C24 witness: src/src/Validator.ts has rejected ['ab', 1] under the list
\* (number, string of two characters), whose rules accept the elements in
\* the other order only
C24_Witness_Validator_ts ==
  /\ TupleCall /\ call.file = "Validator.ts"
  /\ call.rule.nested.v = RuleList(<<R_num, R_min2>>)
  /\ call.x = Arr(<<Str(S_ab), Int2Num(1)>>)
  /\ ~call.result.ok

\* src/src/validator.ts has been called with a present input that is not the
\* rule's default and a boolean rule without parse
BooleanCall ==
  /\ Called /\ call.file = "validator.ts"
  /\ CallCoerces
  /\ call.rule.type = "boolean" /\ ~call.rule.parse.set
\* the call's input is in the list truthy or falsy of its rule
Listed(list) == list.set /\ Includes(list.v, call.x)
\* the call the request handler makes for the query string active=1 of an
\* endpoint whose query schema is {active: {type: 'boolean'}}
ActiveQueryCall ==
  /\ Called /\ call.file = "validator.ts" /\ call.isQuery
  /\ call.x = QsParse(Some(<<[k |-> "active", v |-> <<"1">>]>>))
  /\ call.rule = [Rule("object") EXCEPT !.schema = Some(<<[k |-> "active", rule |-> R_bool]>>)]

\* C25: boolean coercion returns true for true, for a value of truthy and,
\* in lenient mode only, for "1"; false for false, a value of falsy and, in
\* lenient mode only, "0"; every other input raises a ValidationError.  The
\* query string active=1 validates to {active: true}.
C25_BooleanCoercion ==
  /\ BooleanCall =>
        call.result =
          IF call.x = Bool(TRUE) \/ Listed(call.rule.truthy) \/ (call.isQuery /\ call.x = Str(<<"1">>))
          THEN Return(Bool(TRUE))
          ELSE IF call.x = Bool(FALSE) \/ Listed(call.rule.falsy)
                  \/ (call.isQuery /\ call.x = Str(<<"0">>))
          THEN Return(Bool(FALSE))
          ELSE Throw(ValidationError(call.propertyPath, call.x, call.rule))
  /\ ActiveQueryCall => call.result = Return(Obj(<<[k |-> "active", v |-> Bool(TRUE)]>>))
\* C25 witness: the query string active=1 has been validated in lenient mode
\* against the schema {active: {type: 'boolean'}} and active is true
C25_Witness ==
  ActiveQueryCall /\ Get(call.result.v, "active") = Bool(TRUE)

\* C25 in the application of src/unnamed/part_002: the handler of the
\* endpoint with the query schema {active: {type: 'boolean'}} is invoked for
\* GET /forms?active=1 with query.active true, and the query validation of
\* that request does not fail.
C25_ActiveReachesHandler ==
  app.file = "part_002" =>
    \A r \in DOMAIN reqs :
      reqs[r].req = ActiveRequest =>
        /\ \A k \in EventsOf(reqs[r], "queryValidate") : reqs[r].log[k].outcome.ok
        /\ \A h \in EventsOf(reqs[r], "handler") :
             /\ app.endpoints[reqs[r].endpoint].key = "flags"
             /\ reqs[r].log[h].arg.query = Some(Obj(<<[k |-> "active", v |-> Bool(TRUE)]>>))
\* the handler has been invoked for GET /forms?active=1
C25_Witness_handler ==
  /\ app.file = "part_002"
  /\ \E r \in DOMAIN reqs :
       /\ reqs[r].req = ActiveRequest
       /\ \E h \in EventsOf(reqs[r], "handler") :
            Get(reqs[r].log[h].arg.query.v, "active") = Bool(TRUE)

\* src/src/validator.ts has been called with a present input that is not the
\* rule's default and a number rule without parse
NumberCall ==
  /\ Called /\ call.file = "validator.ts"
  /\ CallCoerces
  /\ call.rule.type = "number" /\ ~call.rule.parse.set
\* r is n rounded by Math[fn] to a multiple of the step q
IsRounding(fn, n, r, q) ==
  /\ r % q = 0
  /\ CASE fn = "floor" -> r <= n /\ n < r + q
        [] fn = "ceil" -> r - q < n /\ n <= r
        [] OTHER -> 2 * r - q <= 2 * n /\ 2 * n < 2 * r + q
\* r is what the rule makes of the converted number n: n rounded to
\* rule.digits decimal digits when digits > 0, else n
IsResult(rule, n, r) ==
  IF rule.digits.set /\ rule.digits.v > 0
  THEN IsRounding(IF rule.roundingFn.set THEN rule.roundingFn.v ELSE "round", n, r,
                  Scale \div Pow10(rule.digits.v))
  ELSE r = n
\* the number r passes the rule's integer, min, max and values checks
NumberChecksPass(rule, r) ==
  /\ rule.integer => r % Scale = 0
  /\ rule.min.set => r >= rule.min.v
  /\ rule.max.set => r <= rule.max.v
  /\ rule.values.set => \E i \in DOMAIN rule.values.v : rule.values.v[i] = Num(r)

\* C26: number coercion rejects the empty string and every non-finite
\* input; otherwise the converted number, rounded to rule.digits decimal
\* digits with the rule's rounding function when digits > 0, is checked
\* against integer, min, max and values and is what is returned.
C26_NumberCoercion ==
  NumberCall =>
    IF call.x = Str(<<>>) \/ ~IsFinite(call.x)
    THEN call.result = Throw(ValidationError(call.propertyPath, call.x, call.rule))
    ELSE \E r \in 0..((MaxNum + 1) * Scale) :
           /\ IsResult(call.rule, ToNumber(call.x).n, r)
           /\ call.result = IF NumberChecksPass(call.rule, r) THEN Return(Num(r))
                             ELSE Throw(ValidationError(call.propertyPath, call.x, call.rule))
\* C26 witness: 1.25 has been rounded to one digit by the default rounding
\* function and the result 1.3 is in the rule's values, while 1.25 is not
C26_Witness ==
  /\ NumberCall
  /\ call.x = Num(Scale + Scale \div 4)
  /\ call.rule.digits = Some(1) /\ ~call.rule.roundingFn.set /\ call.rule.values.set
  /\ call.result = Return(Num(Scale + 3 * (Scale \div 10)))

\* a validator has been called with a string that is not the rule's default
\* and a string rule
StringCall ==
  /\ Called
  /\ CallCoerces
  /\ call.rule.type = "string" /\ ~call.rule.parse.set
  /\ call.x.t = "string"
\* the string meets the rule's length, min and max
LengthConstraintsMet(rule, str) ==
  /\ rule.length.set => Len(str) = rule.length.v
  /\ rule.min.set => Len(str) >= rule.min.v
  /\ rule.max.set => Len(str) <= rule.max.v

\* C27: string coercion checks the constraints against the string before
\* trim and escape: the call succeeds exactly when the input string as given
\* meets them.
C27_ChecksBeforeTrim ==
  StringCall => (call.result.ok <=> LengthConstraintsMet(call.rule, call.x.s))
\* C27 for src/src/Validator.ts alone
C27_ChecksBeforeTrim_Validator_ts ==
  StringCall /\ call.file = "Validator.ts" =>
    (call.result.ok <=> LengthConstraintsMet(call.rule, call.x.s))
\* C27 witness: src/src/Validator.ts has accepted ' a' for min 2 and
\* returned the trimmed 'a'
C27_Witness_Validator_ts ==
  /\ StringCall /\ call.file = "Validator.ts"
  /\ call.rule.trim /\ call.rule.min = Some(2)
  /\ call.x = Str(<<" ", "a">>)
  /\ call.result = Return(Str(S_a))
\* what src/src/validator.ts does: the constraints are checked against the
\* string after trim and escape, which is the string returned
C27_ChecksBeforeTrim_validator_ts ==
  StringCall /\ call.file = "validator.ts" =>
    (call.result.ok <=>
       LengthConstraintsMet(call.rule, Escape(IF call.rule.trim THEN Trim(call.x.s) ELSE call.x.s,
                                              call.rule)))

\* src/src/validator.ts has accepted the string of a string call
EscapeCall == StringCall /\ call.file = "validator.ts" /\ call.result.ok
\* the string that reaches the escape step
Unescaped == IF call.rule.trim THEN Trim(call.x.s) ELSE call.x.s
\* str without the control and invisible characters
Stripped(str) == SelectSeq(str, LAMBDA c : c \notin EscapeStripChars)
\* str with every run of whitespace-like characters replaced by one space
Collapsed(str) == ReplaceRuns(str, EscapeSpaceChars, <<" ">>)

\* C28: escape level 1 only strips the control and invisible characters and
\* leaves whitespace runs as they are; level 2 strips them and then
\* collapses every whitespace-like run to one space; level 0 or no level
\* leaves the string unchanged.
C28_EscapeLevels ==
  EscapeCall =>
    call.result.v.s =
      CASE call.rule.escape = Some(1) -> Stripped(Unescaped)
        [] call.rule.escape = Some(2) -> Collapsed(Stripped(Unescaped))
        [] OTHER -> Unescaped
\* C28 without level 1: level 2 strips and collapses, and level 0 or no
\* level leaves the string unchanged
C28_EscapeLevels_notLevel1 ==
  EscapeCall /\ call.rule.escape # Some(1) =>
    call.result.v.s =
      IF call.rule.escape = Some(2) THEN Collapsed(Stripped(Unescaped)) ELSE Unescaped
\* what level 1 does: the same as level 2
C28_EscapeLevels_level1 ==
  EscapeCall /\ call.rule.escape = Some(1) => call.result.v.s = Collapsed(Stripped(Unescaped))
\* C28 witness: level 2 has collapsed the tab and the space of 'a\t b'
C28_Witness_notLevel1 ==
  /\ EscapeCall /\ call.rule.escape = Some(2) /\ ~call.rule.trim /\ ~call.rule.min.set
  /\ call.x = Str(<<"a", "\t", " ", "b">>)
  /\ call.result = Return(Str(<<"a", " ", "b">>))

(***************************************************************************)
(* Validator.validate called several times with one date rule: call.rule  *)
(* is the rule object as it is now and call.built the rule as it was when *)
(* the route table was built.                                             *)
(***************************************************************************)
MaxCalls == 2

DateValues ==
  {Undefined, Null, Int2Num(1), InvalidDate, DateOf(0), DateOf(DayMs),
   Str(IsoDay(1)), Str(IsoDay(3)), Str(S_a)}
DateBounds == {Nil, Some(Int2Num(2)), Some(DateOf(DayMs)), Some(Str(IsoDay(2)))}
DateRules ==
  {[Rule("date") EXCEPT !.min = mn, !.max = mx, !.dateonly = d, !.optional = o] :
     mn \in DateBounds, mx \in {Nil, Some(Str(IsoDay(2)))}, d \in BOOLEAN, o \in BOOLEAN}

InitDate ==
  /\ \E file \in {"validator.ts", "Validator.ts"}, rule \in DateRules :
       call = [file |-> file, x |-> Undefined, rule |-> rule, built |-> rule,
               propertyPath |-> "this", isQuery |-> FALSE, result |-> NotRun, calls |-> 0]
  /\ app = NoApp
  /\ reqs = <<>>

\* validate(x, rule, 'this', isQuery) of src/src/validator.ts
DateValidate ==
  /\ call.file = "validator.ts"
  /\ call.calls < MaxCalls
  /\ \E x \in DateValues, isQuery \in BOOLEAN :
       \E v \in {validate(x, call.rule, call.propertyPath, isQuery)} :
         call' = [call EXCEPT !.x = x, !.isQuery = isQuery, !.result = v, !.calls = @ + 1]
  /\ UNCHANGED <<app, reqs>>

\* validate(x, rule) of src/src/Validator.ts, with what it assigns to the rule
ValidatorDateValidate ==
  /\ call.file = "Validator.ts"
  /\ call.calls < MaxCalls
  /\ \E x \in DateValues :
       \E v \in {Validator_validate(x, call.rule, call.propertyPath)} :
         call' = [call EXCEPT !.x = x, !.result = v, !.calls = @ + 1,
                              !.rule = Validator_ruleAfter(x, call.rule)]
  /\ UNCHANGED <<app, reqs>>

NextDate == DateValidate \/ ValidatorDateValidate

SpecDate == InitDate /\ [][NextDate]_vars

\* C29: validating never modifies the rule: after any sequence of validate
\* calls, returning or raising, the rule (a date rule's min and max
\* included) is as it was built.
C29_RuleUnchanged == call.rule = call.built
\* C29 for src/src/validator.ts alone
C29_RuleUnchanged_validator_ts == call.file = "validator.ts" => call.rule = call.built
\* C29 witness: src/src/validator.ts has validated twice against a date rule
\* with a min given as text, and the second call, of a date before min,
\* raised
C29_Witness_validator_ts ==
  /\ call.file = "validator.ts" /\ call.calls = MaxCalls
  /\ call.built.min = Some(Str(IsoDay(2)))
  /\ call.x = Str(IsoDay(1))
  /\ call.result = Throw(ValidationError(call.propertyPath, call.x, call.built))

(***************************************************************************)
(* readBody of src/src/utils.ts with the events of the request stream.    *)
(* call holds the arguments, the locals of the promise executor (complete,*)
(* received, data), the promise, whether the listeners are attached, the  *)
(* number of resolve and reject calls and the events emitted so far.      *)
(***************************************************************************)
MaxEvents == 4

Chunks == {<<"a">>, <<"b">>, <<"a", "b">>}
\* a Buffer with the given bytes
Buffer(bytes) == [t |-> "buffer", s |-> bytes]
\* Buffer.concat(data)
RECURSIVE Concat(_)
Concat(data) == IF data = <<>> THEN <<>> ELSE Head(data) \o Concat(Tail(data))

\* resolve(value) or reject(error): only the first call settles the promise
Settle(c, outcome) ==
  [c EXCEPT !.promise = IF @ = NotRun THEN outcome ELSE @, !.settles = @ + 1]
\* cleanup(throwed)
cleanup(c, throwed) ==
  IF c.complete THEN c
  ELSE [c EXCEPT !.complete = TRUE, !.halted = @ \/ throwed, !.listening = FALSE]
onAborted(c) ==
  IF c.complete THEN c
  ELSE Settle(cleanup(c, TRUE),
              Throw(HttpException(400, "request aborted",
                                  [code |-> "ECONNABORTED", expected |-> c.length,
                                   received |-> c.received])))
onData(c, chunk) ==
  IF c.complete THEN c
  ELSE LET received == c.received + Len(chunk)
       IN IF c.limit.set /\ received > c.limit.v
          THEN Settle(cleanup([c EXCEPT !.received = received], TRUE),
                      Throw(HttpException(413, "request entity too large",
                                          [limit |-> c.limit, received |-> received])))
          ELSE [c EXCEPT !.received = received, !.data = Append(@, chunk)]
\* onEnd(err): the listener of end (err undefined) and of error
onEnd(c, err) ==
  IF c.complete THEN c
  ELSE IF err.set \/ c.length # Some(c.received)
  THEN Settle(cleanup(c, TRUE),
              Throw(IF err.set THEN err.v
                    ELSE HttpException(400, "request size did not match content length",
                                       [expected |-> c.length, received |-> c.received])))
  ELSE Settle(cleanup(c, FALSE),
              Return(IF c.encoding.set THEN Str(Concat(c.data)) ELSE Buffer(Concat(c.data))))
\* the promise executor up to req.on(...): the three checks that reject at
\* once, else the five listeners are attached
executor(c) ==
  IF c.encoding.set /\ c.encoding.v # "utf-8"
  THEN Settle(c, Throw(HttpException(415, "specified encoding unsupported",
                                     [encoding |-> c.encoding.v])))
  ELSE IF c.length.set /\ c.limit.set /\ c.length.v > c.limit.v
  THEN Settle([c EXCEPT !.halted = TRUE],
              Throw(HttpException(413, "request entity too large",
                                  [expected |-> c.length, limit |-> c.limit])))
  ELSE IF c.decoder
  THEN Settle([c EXCEPT !.halted = TRUE],
              Throw(HttpException(500, "stream encoding should not be set", [none |-> TRUE])))
  ELSE [c EXCEPT !.listening = TRUE, !.attached = TRUE]

InitReadBody ==
  /\ \E encoding \in {Nil, Some("utf-8"), Some("latin1")},
        length \in {Nil} \cup {Some(n) : n \in 0..3},
        limit \in {Nil, Some(2)}, decoder \in BOOLEAN :
       call = [file |-> "utils.ts", pc |-> "new", encoding |-> encoding, length |-> length,
               limit |-> limit, decoder |-> decoder, complete |-> FALSE, received |-> 0,
               data |-> <<>>, promise |-> NotRun, settles |-> 0, listening |-> FALSE,
               attached |-> FALSE, halted |-> FALSE, log |-> <<>>]
  /\ app = NoApp
  /\ reqs = <<>>

\* readBody(req, encoding, limit) is called
ReadBody ==
  /\ call.pc = "new"
  /\ call' = [executor(call) EXCEPT !.pc = "run"]
  /\ UNCHANGED <<app, reqs>>
\* the stream emits an event: its listener runs when it is attached
Emit(event, after) ==
  /\ call.pc = "run"
  /\ Len(call.log) < MaxEvents
  /\ call' = [(IF call.listening THEN after ELSE call) EXCEPT !.log = Append(@, event)]
  /\ UNCHANGED <<app, reqs>>
EmitAborted == Emit([name |-> "aborted"], onAborted(call))
EmitClose == Emit([name |-> "close"], cleanup(call, FALSE))
EmitData == \E chunk \in Chunks : Emit([name |-> "data", chunk |-> chunk], onData(call, chunk))
EmitEnd == Emit([name |-> "end"], onEnd(call, Nil))
EmitError == Emit([name |-> "error"], onEnd(call, Some(Error("stream"))))

NextReadBody == ReadBody \/ EmitAborted \/ EmitClose \/ EmitData \/ EmitEnd \/ EmitError

SpecReadBody == InitReadBody /\ [][NextReadBody]_vars

\* the listeners were attached and the promise is settled
SettledByEvent == call.attached /\ call.promise # NotRun
\* the chunks of the data events among the first k events, in their order
RECURSIVE ChunksBefore(_)
ChunksBefore(k) ==
  IF k = 0 THEN <<>>
  ELSE IF call.log[k].name = "data" THEN Append(ChunksBefore(k - 1), call.log[k].chunk)
  ELSE ChunksBefore(k - 1)
\* event k is the end of a stream that had no error, abort or close before,
\* whose size never exceeded the limit and equals the declared length
GoodEnd(k) ==
  /\ call.log[k].name = "end"
  /\ \A j \in 1..(k - 1) : call.log[j].name = "data"
  /\ call.limit.set => \A j \in 0..k : Len(Concat(ChunksBefore(j))) <= call.limit.v
  /\ call.length = Some(Len(Concat(ChunksBefore(k))))
\* the promise is resolved with the chunks before a good end, concatenated
\* in arrival order
ResolvedRight ==
  \E k \in DOMAIN call.log :
    /\ GoodEnd(k)
    /\ call.promise.v.s = Concat(ChunksBefore(k))
\* no step after the promise has settled or cleanup has run changes the
\* outcome or the accumulated data
Frozen ==
  call.pc = "run" /\ (call.complete \/ call.promise # NotRun) =>
    call'.promise = call.promise /\ call'.data = call.data

\* C30: under every interleaving of data, end, error, aborted and close
\* events readBody settles its promise at most once; once it has settled or
\* cleanup has run no later event changes the outcome or the data; it
\* resolves with the chunks concatenated in arrival order only when the
\* stream ended without error, within the limit and with the declared
\* length, and otherwise rejects with status 413 or 400.
C30_ReadBodyEvents ==
  /\ [](call.settles <= 1)
  /\ [][Frozen]_vars
  /\ [](SettledByEvent =>
          IF call.promise.ok THEN ResolvedRight
          ELSE /\ call.promise.e.name = "HttpException"
               /\ call.promise.e.statusCode \in {413, 400})
\* C30 with the rejection of an error event being the stream's own error
C30_ReadBodyEvents_ownError ==
  /\ [](call.settles <= 1)
  /\ [][Frozen]_vars
  /\ [](SettledByEvent =>
          IF call.promise.ok THEN ResolvedRight
          ELSE \E k \in DOMAIN call.log :
                 /\ \A j \in 1..(k - 1) : call.log[j].name = "data"
                 /\ \A j \in 0..(k - 1) :
                      call.limit.set => Len(Concat(ChunksBefore(j))) <= call.limit.v
                 /\ CASE call.log[k].name = "error" -> call.promise.e = Error("stream")
                      [] call.log[k].name = "aborted" ->
                           call.promise.e.name = "HttpException" /\ call.promise.e.statusCode = 400
                      [] call.log[k].name = "end" ->
                           /\ ~GoodEnd(k)
                           /\ call.promise.e.name = "HttpException"
                           /\ call.promise.e.statusCode = 400
                      [] call.log[k].name = "data" ->
                           /\ call.limit.set
                           /\ Len(Concat(ChunksBefore(k))) > call.limit.v
                           /\ call.promise.e.name = "HttpException"
                           /\ call.promise.e.statusCode = 413
                      [] OTHER -> FALSE)
\* C30 witness: the promise was resolved with 'ab' from the chunks 'a' and
\* 'b', and an error event came afterwards
C30_Witness_ownError ==
  /\ SettledByEvent
  /\ call.log = <<[name |-> "data", chunk |-> <<"a">>], [name |-> "data", chunk |-> <<"b">>],
                  [name |-> "end"], [name |-> "error"]>>
  /\ call.promise = Return(Str(<<"a", "b">>))
  /\ call.settles = 1
====
